---- MODULE Spec2Model ----
(***************************************************************************)
(* Model of mocha-test-lens: the test-block parser (src/src/testParser.ts) *)
(* and the grep-pattern synthesis built on it, the code lenses made from   *)
(* the blocks (src/src/codeLensProvider.ts), the runner with its terminal, *)
(* its debug sessions and its search for the node and mocha binaries       *)
(* (src/src/testRunner.ts), and the activation of the extension            *)
(* (src/src/extension.ts).                                                 *)
(*                                                                         *)
(* A string is a sequence of one-character strings.  A TestBlock's parent  *)
(* reference is the 1-based index of the parent in testBlocks (0 for       *)
(* undefined): the parent object is always an element of the same array.   *)
(***************************************************************************)
EXTENDS Integers, Sequences, FiniteSets, TLC

VARIABLES
    text,          \* document.getText(): the characters of the document
    lines,         \* text.split('\n')
    lineNum,       \* loop variable of parseWithRegex
    parentStack,   \* stack of [block, indent]; block is an index into testBlocks
    testBlocks,    \* the array parseDocument fills and returns
    pc,            \* "idle" | "parsing" | "parsed"
    str,           \* the argument of a direct call of escapeRegex
    call,          \* the returned call of escapeRegex or buildGrepPattern: [op, arg, ret]
    returned,      \* the earlier parseDocument calls: the text given, the blocks returned
    fileName,      \* document.fileName
    codeLenses,    \* the array provideCodeLenses returns
    terminals,     \* vscode.window.terminals
    createCalls,   \* the number of calls of vscode.window.createTerminal
    opened,        \* the number of terminals the user has opened
    effects,       \* what the returned call of the runner did, in order
    files,         \* the paths fileSystem.existsSync answers true for
    nvmrc,         \* what fs.readFileSync gives for the .nvmrc: [throws, content]
    config,        \* workspace.getConfiguration('mochaTestLens')
    environ,       \* process.env and os.homedir()
    workspaceFolders, \* vscode.workspace.workspaceFolders: the fsPath of each
    isActivated,   \* the module variable of extension.ts
    testRunner,    \* the module variable of extension.ts: [id, disposed], id 0 for none
    subscriptions, \* what activate has registered, in order
    activateCalls  \* the number of calls of activate

parserVars == <<text, lines, lineNum, parentStack, testBlocks, pc, str, call>>

lensVars == <<fileName, codeLenses>>

runnerVars == <<terminals, createCalls, opened, effects>>

hostVars == <<files, nvmrc, config, environ, workspaceFolders>>

extensionVars == <<isActivated, testRunner, subscriptions, activateCalls>>

vars == <<parserVars, returned, lensVars, runnerVars, hostVars, extensionVars>>

(***************************************************************************)
(* Bounds of the model.                                                    *)
(***************************************************************************)
MaxLines == 3

MaxIndent == 2

MaxStrLen == 2

\* lines of a document that is parsed twice or given to provideCodeLenses
MaxShortLines == 2

\* calls of createTerminal that a closing of a terminal can still follow
MaxCreateCalls == 2

\* terminals the user opens
MaxUserTerminals == 1

\* directories between the file system root and a test file
MaxDepth == 3

\* calls of activate
MaxActivateCalls == 3

(***************************************************************************)
(* Strings.                                                                *)
(***************************************************************************)
NL == "\n"

Concat(ss) ==
    LET Cat[i \in 0..Len(ss)] == IF i = 0 THEN <<>> ELSE Cat[i - 1] \o ss[i]
    IN  Cat[Len(ss)]

\* Array.prototype.join
Join(ss, sep) ==
    LET J[i \in 0..Len(ss)] ==
            IF i = 0 THEN <<>>
            ELSE IF i = 1 THEN ss[1]
            ELSE J[i - 1] \o sep \o ss[i]
    IN  J[Len(ss)]

\* the pieces of s between the occurrences of the one-character separator:
\* k separators give k + 1 pieces, the empty string gives one empty piece
Pieces(s, sep) ==
    LET seps   == {i \in 1..Len(s) : s[i] = sep}
        n      == Cardinality(seps)
        cut(k) == CHOOSE p \in seps : Cardinality({q \in seps : q < p}) = k - 1
    IN  [k \in 1..(n + 1) |->
            SubSeq(s, IF k = 1 THEN 1 ELSE cut(k - 1) + 1,
                      IF k = n + 1 THEN Len(s) ELSE cut(k) - 1)]

\* a variant that drops the empty pieces
Split_DropEmpty(s, sep) ==
    SelectSeq(Pieces(s, sep), LAMBDA piece : piece # <<>>)

\* String.prototype.split on a one-character separator
Split(s, sep) == Pieces(s, sep)

IsPrefix(p, s) == Len(p) <= Len(s) /\ SubSeq(s, 1, Len(p)) = p

Spaces(n) == [i \in 1..n |-> " "]

(***************************************************************************)
(* testPattern:                                                            *)
(*   ^\s*(describe|it)(?:\.(only|skip))?\s*\(\s*(quote)(.+?)\3              *)
(* where quote is one of the single quote, the double quote, the backquote *)
(***************************************************************************)
\* \s, as far as it can occur inside one piece of a split on '\n'
WhiteSpace == {" ", "\t", "\r"}

\* what . does not match
LineTerminators == {"\n", "\r"}

\* the backquote character (a TLA+ string cannot hold one)
BackQuote == "BQ"

Quotes == {"'", "\"", BackQuote}

KwDescribe == <<"d", "e", "s", "c", "r", "i", "b", "e">>

KwIt == <<"i", "t">>

ModOnly == <<".", "o", "n", "l", "y">>

ModSkip == <<".", "s", "k", "i", "p">>

HasAt(line, i, word) ==
    /\ i + Len(word) - 1 <= Len(line)
    /\ SubSeq(line, i, i + Len(word) - 1) = word

\* \s* from position i: the position of the first character that is not
\* white space, Len(line) + 1 when there is none
SkipWs(line, i) ==
    LET rest == {k \in i..Len(line) : line[k] \notin WhiteSpace}
    IN  IF rest = {} THEN Len(line) + 1
        ELSE CHOOSE k \in rest : \A m \in rest : k <= m

NoMatch == [matched |-> FALSE]

\* a variant without the optional group
SkipModifier_None(line, i) == i

\* (?:\.(only|skip))? from position i: the position after the modifier
SkipModifier(line, i) ==
    IF HasAt(line, i, ModOnly) \/ HasAt(line, i, ModSkip) THEN i + 5 ELSE i

\* a variant that closes the name with any of the three quotes
ClosingQuotes_AnyQuote(line, i) ==
    {k \in (i + 2)..Len(line) : line[k] \in Quotes}

\* (.+?)\3 after the quote at position i: the positions of a quote equal to
\* the opening one with at least one character before it
ClosingQuotes(line, i) ==
    {k \in (i + 2)..Len(line) : line[k] = line[i]}

\* line.match(testPattern): the keyword and the name captured, or no match
testPattern(line) ==
    LET i0 == SkipWs(line, 1)
        kw == IF HasAt(line, i0, KwDescribe) THEN KwDescribe
              ELSE IF HasAt(line, i0, KwIt) THEN KwIt
              ELSE <<>>
        i1 == i0 + Len(kw)
        i2 == SkipModifier(line, i1)
        i3 == SkipWs(line, i2)
        i4 == SkipWs(line, i3 + 1)
        \* (.+?) is lazy: the name ends at the first closing position
        closing == ClosingQuotes(line, i4)
        k0 == CHOOSE k \in closing : \A m \in closing : k <= m
    IN  IF kw = <<>> THEN NoMatch
        ELSE IF ~(i3 <= Len(line) /\ line[i3] = "(") THEN NoMatch
        ELSE IF ~(i4 <= Len(line) /\ line[i4] \in Quotes) THEN NoMatch
        ELSE IF closing = {} THEN NoMatch
        ELSE IF \E m \in (i4 + 1)..(k0 - 1) : line[m] \in LineTerminators
             THEN NoMatch
        ELSE [matched  |-> TRUE,
              keyword  |-> IF kw = KwDescribe THEN "describe" ELSE "it",
              testName |-> SubSeq(line, i4 + 1, k0 - 1)]

\* line.search(/\S/), 0-indexed (-1 when the line holds white space only)
SearchNonSpace(line) ==
    LET i == SkipWs(line, 1)
    IN  IF i > Len(line) THEN -1 ELSE i - 1

(***************************************************************************)
(* buildFullTestName: the names of the parent chain, outermost first, then *)
(* testName, joined by ' '.                                                *)
(***************************************************************************)
\* the names collected by "while (current) { names.unshift(current.name);
\* current = current.parent }"
RECURSIVE ChainNames(_, _)
ChainNames(blocks, current) ==
    IF current = 0 THEN <<>>
    ELSE Append(ChainNames(blocks, blocks[current].parent), blocks[current].name)

\* a variant that joins the direct parent's name only
buildFullTestName_ParentOnly(blocks, parent, testName) ==
    Join(IF parent = 0 THEN <<testName>>
         ELSE <<blocks[parent].name, testName>>, <<" ">>)

\* a variant that forgets the block's own name
buildFullTestName_NoOwnName(blocks, parent, testName) ==
    Join(ChainNames(blocks, parent), <<" ">>)

buildFullTestName(blocks, parent, testName) ==
    Join(Append(ChainNames(blocks, parent), testName), <<" ">>)

(***************************************************************************)
(* escapeRegex: str.replace(/[.*+?^${}()|[\]\\]/g, '\\$&')                  *)
(***************************************************************************)
\* the characters of the class [.*+?^${}()|[\]\\]
RegexSpecials ==
    {".", "*", "+", "?", "^", "$", "{", "}", "(", ")", "|", "[", "]", "\\"}

\* a variant whose class holds the space as well
escapeRegex_WithSpace(s) ==
    Concat([i \in 1..Len(s) |->
              IF s[i] \in RegexSpecials \cup {" "}
              THEN <<"\\", s[i]>> ELSE <<s[i]>>])

\* a variant whose class lacks the closing bracket
escapeRegex_NoBracket(s) ==
    Concat([i \in 1..Len(s) |->
              IF s[i] \in RegexSpecials \ {"]"} THEN <<"\\", s[i]>> ELSE <<s[i]>>])

\* a variant whose class lacks the dot
escapeRegex_NoDot(s) ==
    Concat([i \in 1..Len(s) |->
              IF s[i] \in RegexSpecials \ {"."} THEN <<"\\", s[i]>> ELSE <<s[i]>>])

\* every match (one character of the class) is replaced by a backslash
\* followed by the match; the other characters are copied
escapeRegex(s) ==
    Concat([i \in 1..Len(s) |->
              IF s[i] \in RegexSpecials THEN <<"\\", s[i]>> ELSE <<s[i]>>])

(***************************************************************************)
(* buildGrepPattern                                                        *)
(***************************************************************************)
\* "while (current) { parts.unshift(this.escapeRegex(current.name));
\* current = current.parent }"
RECURSIVE ChainParts(_, _)
ChainParts(blocks, current) ==
    IF current = 0 THEN <<>>
    ELSE Append(ChainParts(blocks, blocks[current].parent),
                escapeRegex(blocks[current].name))

\* a variant that collects the parts with push: innermost first
RECURSIVE ChainPartsPushed(_, _)
ChainPartsPushed(blocks, current) ==
    IF current = 0 THEN <<>>
    ELSE <<escapeRegex(blocks[current].name)>>
         \o ChainPartsPushed(blocks, blocks[current].parent)

buildGrepPattern_InnermostFirst(blocks, b) ==
    LET parts == ChainPartsPushed(blocks, b)
    IN  IF blocks[b].type = "it"
        THEN <<"^">> \o Join(parts, <<" ">>) \o <<"$">>
        ELSE <<"^">> \o Join(parts, <<" ">>)

\* a variant that anchors the end for every type
buildGrepPattern_AlwaysAnchored(blocks, b) ==
    <<"^">> \o Join(ChainParts(blocks, b), <<" ">>) \o <<"$">>

\* a variant that never anchors the end
buildGrepPattern_NoEndAnchor(blocks, b) ==
    <<"^">> \o Join(ChainParts(blocks, b), <<" ">>)

buildGrepPattern(blocks, b) ==
    LET parts == ChainParts(blocks, b)
    IN  IF blocks[b].type = "it"
        THEN <<"^">> \o Join(parts, <<" ">>) \o <<"$">>
        ELSE <<"^">> \o Join(parts, <<" ">>)

(***************************************************************************)
(* The inputs: documents of at most MaxLines lines.                        *)
(***************************************************************************)
Decl(indent, kw, label) ==
    Spaces(indent) \o kw \o <<"(", "'">> \o label \o <<"'">>

\* suites named a and a$ (one name a prefix of the other, one ending in a
\* regex character), cases named a, and a line that declares nothing
LineSet ==
    { Decl(n, KwDescribe, l) : n \in 0..MaxIndent, l \in { <<"a">>, <<"a", "$">> } }
    \cup { Decl(n, KwIt, <<"a">>) : n \in 0..MaxIndent }
    \cup { <<"}", ")">> }

(***************************************************************************)
(* parseDocument / parseWithRegex                                          *)
(***************************************************************************)
NoCall == [op |-> "none"]

\* the path of a document under a test directory
TestFile == <<"t", "e", "s", "t", "/", "a">>

\* no setting is made: each config.get gives its default
DefaultConfig ==
    [env                |-> <<>>,
     nodePath           |-> <<>>,
     workspaceRoot      |-> <<>>,
     debugPreLaunchTask |-> <<>>,
     debugEnvFile       |-> <<>>]

\* no variable of the environment is set; the home directory is /h
NoEnviron ==
    [NODE_PATH |-> <<>>, NVM_DIR |-> <<>>, NVM_BIN |-> <<>>,
     homedir   |-> <<"/", "h">>]

\* an empty file system, default settings, no folder open
NoHost ==
    /\ files = {}
    /\ nvmrc = [throws |-> TRUE, content |-> <<>>]
    /\ config = DefaultConfig
    /\ environ = NoEnviron
    /\ workspaceFolders = <<>>

\* the module of the extension is loaded, activate is not called
NotActivated ==
    /\ isActivated = FALSE
    /\ testRunner = [id |-> 0, disposed |-> FALSE]
    /\ subscriptions = <<>>
    /\ activateCalls = 0

Init ==
    /\ \E n \in 1..MaxLines : \E ls \in [1..n -> LineSet] : text = Join(ls, <<NL>>)
    /\ lines = <<>>
    /\ lineNum = 0
    /\ parentStack = <<>>
    /\ testBlocks = <<>>
    /\ pc = "idle"
    /\ str = <<>>
    /\ call = NoCall
    /\ returned = <<>>
    /\ fileName = TestFile
    /\ codeLenses = <<>>
    /\ terminals = <<>>
    /\ createCalls = 0
    /\ opened = 0
    /\ effects = <<>>
    /\ NoHost
    /\ NotActivated

\* a variant whose testBlocks array belongs to the parser, not to the call
ParseDocument_SharedBlocks ==
    /\ pc = "idle"
    /\ lines' = Split(text, NL)
    /\ parentStack' = <<>>
    /\ lineNum' = 0
    /\ pc' = "parsing"
    /\ UNCHANGED <<text, testBlocks, str, call, returned, lensVars, runnerVars,
                   hostVars, extensionVars>>

\* parseDocument up to the loop of parseWithRegex
ParseDocument ==
    /\ pc = "idle"
    /\ lines' = Split(text, NL)
    /\ testBlocks' = <<>>
    /\ parentStack' = <<>>
    /\ lineNum' = 0
    /\ pc' = "parsing"
    /\ UNCHANGED <<text, str, call, returned, lensVars, runnerVars,
                   hostVars, extensionVars>>

\* a variant with an if in place of the while: at most one entry is popped
PopStack_Once(stack, indent) ==
    IF Len(stack) > 0 /\ stack[Len(stack)].indent >= indent
    THEN SubSeq(stack, 1, Len(stack) - 1)
    ELSE stack

\* a variant of the pop loop that keeps an entry of equal indent
RECURSIVE PopStack_Strict(_, _)
PopStack_Strict(stack, indent) ==
    IF Len(stack) > 0 /\ stack[Len(stack)].indent > indent
    THEN PopStack_Strict(SubSeq(stack, 1, Len(stack) - 1), indent)
    ELSE stack

\* "while (parentStack.length > 0 && top.indent >= indent) parentStack.pop()"
RECURSIVE PopStack(_, _)
PopStack(stack, indent) ==
    IF Len(stack) > 0 /\ stack[Len(stack)].indent >= indent
    THEN PopStack(SubSeq(stack, 1, Len(stack) - 1), indent)
    ELSE stack

\* a variant that pushes every block, a case as well as a suite
PushDescribe_AnyType(stack, type, entry) == Append(stack, entry)

\* "if (type === 'describe') parentStack.push({ block: testBlock, indent })"
PushDescribe(stack, type, entry) ==
    IF type = "describe" THEN Append(stack, entry) ELSE stack

\* one iteration of the for loop over the lines
ParseLine ==
    /\ pc = "parsing"
    /\ lineNum < Len(lines)
    /\ LET line  == lines[lineNum + 1]
           match == testPattern(line)
       IN  IF match.matched
           THEN LET indent == SearchNonSpace(line)
                    popped == PopStack(parentStack, indent)
                    parent == IF Len(popped) > 0
                              THEN popped[Len(popped)].block ELSE 0
                    testBlock ==
                        [type     |-> match.keyword,
                         name     |-> match.testName,
                         line     |-> lineNum,
                         column   |-> indent,
                         fullName |-> buildFullTestName(testBlocks, parent,
                                                        match.testName),
                         parent   |-> parent]
                IN  /\ testBlocks' = Append(testBlocks, testBlock)
                    /\ parentStack' =
                         PushDescribe(popped, match.keyword,
                                      [block  |-> Len(testBlocks) + 1,
                                       indent |-> indent])
           ELSE UNCHANGED <<testBlocks, parentStack>>
    /\ lineNum' = lineNum + 1
    /\ UNCHANGED <<text, lines, pc, str, call, returned, lensVars, runnerVars,
                   hostVars, extensionVars>>

\* the loop ends and parseDocument returns testBlocks
ParseReturn ==
    /\ pc = "parsing"
    /\ lineNum >= Len(lines)
    /\ pc' = "parsed"
    /\ UNCHANGED <<text, lines, lineNum, parentStack, testBlocks, str, call,
                   returned, lensVars, runnerVars,
                   hostVars, extensionVars>>

\* buildGrepPattern(testBlock) on a block of the parsed document
BuildGrepPattern ==
    /\ pc = "parsed"
    /\ call.op # "buildGrepPattern"
    /\ \E b \in 1..Len(testBlocks) :
          call' = [op  |-> "buildGrepPattern",
                   arg |-> b,
                   ret |-> buildGrepPattern(testBlocks, b)]
    /\ UNCHANGED <<text, lines, lineNum, parentStack, testBlocks, pc, str,
                   returned, lensVars, runnerVars,
                   hostVars, extensionVars>>

\* escapeRegex(str), called directly
EscapeRegex ==
    /\ call.op # "escapeRegex"
    /\ call' = [op |-> "escapeRegex", arg |-> str, ret |-> escapeRegex(str)]
    /\ UNCHANGED <<text, lines, lineNum, parentStack, testBlocks, pc, str,
                   returned, lensVars, runnerVars,
                   hostVars, extensionVars>>

Next ==
    \/ ParseDocument
    \/ ParseLine
    \/ ParseReturn
    \/ BuildGrepPattern

Spec == Init /\ [][Next]_vars

(***************************************************************************)
(* The pure functions on arbitrary labels: a document of one declaration   *)
(* whose label is any string over Alphabet, and escapeRegex on that label. *)
(***************************************************************************)
Alphabet == RegexSpecials \cup {"a", " "}

InitLabel ==
    /\ \E n \in 0..MaxStrLen : str \in [1..n -> Alphabet]
    /\ \E kw \in {KwDescribe, KwIt} :
          text = IF str = <<>> THEN <<>> ELSE Decl(0, kw, str)
    /\ lines = <<>>
    /\ lineNum = 0
    /\ parentStack = <<>>
    /\ testBlocks = <<>>
    /\ pc = "idle"
    /\ call = NoCall
    /\ returned = <<>>
    /\ fileName = TestFile
    /\ codeLenses = <<>>
    /\ terminals = <<>>
    /\ createCalls = 0
    /\ opened = 0
    /\ effects = <<>>
    /\ NoHost
    /\ NotActivated

NextLabel ==
    \/ ParseDocument
    \/ ParseLine
    \/ ParseReturn
    \/ BuildGrepPattern
    \/ EscapeRegex

SpecLabel == InitLabel /\ [][NextLabel]_vars

(***************************************************************************)
(* The pattern on lines of other shapes: the three quotes, a closing quote *)
(* that differs from the opening one, a quote escaped inside the label,    *)
(* the modifiers, comments, a template string and the empty line.          *)
(***************************************************************************)
Quoted(open, label, close) == KwIt \o <<"(", open>> \o label \o <<close>>

\* // it('a'
LineComment == <<"/", "/", " ">> \o Quoted("'", <<"a">>, "'")

CommentOpen == <<"/", "*">>

CommentClose == <<"*", "/">>

\* it('a"
MismatchedQuote == Quoted("'", <<"a">>, "\"")

\* it('a\'b'
EscapedQuote == Quoted("'", <<"a", "\\", "'", "b">>, "'")

\* a line that opens or closes a template string
TemplateQuote == <<BackQuote>>

\* the lines that declare nothing
NonDeclarations ==
    { <<>>, LineComment, CommentOpen, CommentClose, MismatchedQuote,
      TemplateQuote }

SyntaxLines ==
    NonDeclarations
    \cup { Quoted(q, <<"a">>, q) : q \in Quotes }
    \cup { EscapedQuote,
           KwDescribe \o ModOnly \o <<"(", "'", "a", "'">>,
           <<" ">> \o KwIt \o ModSkip \o <<"(", "'", "a", "'">> }

InitSyntax ==
    /\ \E n \in 1..MaxLines : \E ls \in [1..n -> SyntaxLines] :
          text = Join(ls, <<NL>>)
    /\ lines = <<>>
    /\ lineNum = 0
    /\ parentStack = <<>>
    /\ testBlocks = <<>>
    /\ pc = "idle"
    /\ str = <<>>
    /\ call = NoCall
    /\ returned = <<>>
    /\ fileName = TestFile
    /\ codeLenses = <<>>
    /\ terminals = <<>>
    /\ createCalls = 0
    /\ opened = 0
    /\ effects = <<>>
    /\ NoHost
    /\ NotActivated

NextSyntax ==
    \/ ParseDocument
    \/ ParseLine
    \/ ParseReturn

SpecSyntax == InitSyntax /\ [][NextSyntax]_vars

(***************************************************************************)
(* One parser, several documents: the provider keeps one TestParser and    *)
(* calls parseDocument on it whenever the editor asks for lenses.          *)
(***************************************************************************)
DeclMod(indent, kw, mod, label) ==
    Spaces(indent) \o kw \o mod \o <<"(", "'">> \o label \o <<"'">>

ShortLines ==
    { DeclMod(0, KwDescribe, m, <<"a">>) : m \in {<<>>, ModSkip} }
    \cup { DeclMod(1, KwIt, m, <<"a">>) : m \in {<<>>, ModOnly} }
    \cup { <<"}", ")">> }

InitAgain ==
    /\ \E n \in 1..MaxShortLines : \E ls \in [1..n -> ShortLines] :
          text = Join(ls, <<NL>>)
    /\ lines = <<>>
    /\ lineNum = 0
    /\ parentStack = <<>>
    /\ testBlocks = <<>>
    /\ pc = "idle"
    /\ str = <<>>
    /\ call = NoCall
    /\ returned = <<>>
    /\ fileName = TestFile
    /\ codeLenses = <<>>
    /\ terminals = <<>>
    /\ createCalls = 0
    /\ opened = 0
    /\ effects = <<>>
    /\ NoHost
    /\ NotActivated

\* the caller has the blocks of a call and gives the parser the next
\* document: any document after the first call, the first document again
\* after the second call
NextDocument ==
    /\ pc = "parsed"
    /\ Len(returned) < 2
    /\ returned' = Append(returned, [text |-> text, blocks |-> testBlocks])
    /\ IF returned = <<>>
       THEN \E n \in 1..MaxShortLines : \E ls \in [1..n -> ShortLines] :
               text' = Join(ls, <<NL>>)
       ELSE text' = returned[1].text
    /\ pc' = "idle"
    /\ UNCHANGED <<lines, lineNum, parentStack, testBlocks, str, call,
                   lensVars, runnerVars,
                   hostVars, extensionVars>>

NextAgain ==
    \/ ParseDocument
    \/ ParseLine
    \/ ParseReturn
    \/ NextDocument

SpecAgain == InitAgain /\ [][NextAgain]_vars

(***************************************************************************)
(* provideCodeLenses (src/src/codeLensProvider.ts)                         *)
(***************************************************************************)
\* String.prototype.includes
Includes(s, sub) == \E k \in 1..Len(s) : HasAt(s, k, sub)

\* a variant that goes by the .test. and .spec. of the file name
isTestFile_ByExtension(name) ==
    \/ Includes(name, <<".", "t", "e", "s", "t", ".">>)
    \/ Includes(name, <<".", "s", "p", "e", "c", ".">>)

isTestFile(name) ==
    \/ Includes(name, <<"t", "e", "s", "t", "/">>)
    \/ Includes(name, <<"s", "p", "e", "c", "/">>)

\* document.uri
Uri(name) == [fsPath |-> name]

\* the two lenses pushed for one block
BlockLenses(name, testBlock) ==
    LET range == <<testBlock.line, testBlock.column,
                   testBlock.line, testBlock.column>>
    IN  << [range   |-> range,
            command |-> [title     |-> "$(play) Run Test",
                         command   |-> "mochaTestLens.runTest",
                         arguments |-> <<Uri(name), testBlock>>,
                         tooltip   |-> <<"R", "u", "n", ":", " ">>
                                       \o testBlock.fullName]],
           [range   |-> range,
            command |-> [title     |-> "$(debug-alt) Debug Test",
                         command   |-> "mochaTestLens.debugTest",
                         arguments |-> <<Uri(name), testBlock>>,
                         tooltip   |-> <<"D", "e", "b", "u", "g", ":", " ">>
                                       \o testBlock.fullName]] >>

\* spec/a, lib/a.test.ts, src/a, tests/a and test/a
FileNames ==
    { TestFile,
      <<"s", "p", "e", "c", "/", "a">>,
      <<"l", "i", "b", "/", "a", ".", "t", "e", "s", "t", ".", "t", "s">>,
      <<"s", "r", "c", "/", "a">>,
      <<"t", "e", "s", "t", "s", "/", "a">> }

InitLens ==
    /\ \E n \in 1..MaxShortLines : \E ls \in [1..n -> ShortLines] :
          text = Join(ls, <<NL>>)
    /\ fileName \in FileNames
    /\ lines = <<>>
    /\ lineNum = 0
    /\ parentStack = <<>>
    /\ testBlocks = <<>>
    /\ pc = "idle"
    /\ str = <<>>
    /\ call = NoCall
    /\ returned = <<>>
    /\ codeLenses = <<>>
    /\ terminals = <<>>
    /\ createCalls = 0
    /\ opened = 0
    /\ effects = <<>>
    /\ NoHost
    /\ NotActivated

\* provideCodeLenses on a document that is not a test file: return []
ProvideCodeLensesSkip ==
    /\ pc = "idle"
    /\ ~isTestFile(fileName)
    /\ codeLenses' = <<>>
    /\ pc' = "provided"
    /\ UNCHANGED <<text, lines, lineNum, parentStack, testBlocks, str, call,
                   returned, fileName, runnerVars,
                   hostVars, extensionVars>>

\* provideCodeLenses on a test file, up to the loop of the parser
ProvideCodeLensesParse ==
    /\ isTestFile(fileName)
    /\ ParseDocument

\* provideCodeLenses on a test file, after parseDocument has returned
ProvideCodeLensesReturn ==
    /\ pc = "parsed"
    /\ codeLenses' = Concat([b \in 1..Len(testBlocks) |->
                               BlockLenses(fileName, testBlocks[b])])
    /\ pc' = "provided"
    /\ UNCHANGED <<text, lines, lineNum, parentStack, testBlocks, str, call,
                   returned, fileName, runnerVars,
                   hostVars, extensionVars>>

NextLens ==
    \/ ProvideCodeLensesSkip
    \/ ProvideCodeLensesParse
    \/ ParseLine
    \/ ParseReturn
    \/ ProvideCodeLensesReturn

SpecLens == InitLens /\ [][NextLens]_vars

(***************************************************************************)
(* The file system and the environment as the runner reads them, and the   *)
(* functions of node's path module it calls, on POSIX paths.  In a path    *)
(* the separator is the element "/"; a directory or file name that the     *)
(* code fixes (node_modules, .bin, ...) is one element, any other name is  *)
(* spelled in characters.                                                  *)
(***************************************************************************)
Sep == "/"

\* a variant for which every path exists
existsSync_Always(p) == TRUE

\* fileSystem.existsSync
existsSync(p) == p \in files

IsAbsolute(p) == p # <<>> /\ p[1] = Sep

\* the names between the separators of p
Segments(p) == SelectSeq(Split(p, Sep), LAMBDA name : name # <<>>)

\* the names of a path with the . names dropped and each .. name resolved
Resolved(names, absolute) ==
    LET R[i \in 0..Len(names)] ==
            IF i = 0 THEN <<>>
            ELSE IF names[i] = <<".">> THEN R[i - 1]
            ELSE IF names[i] = <<".", ".">>
            THEN IF R[i - 1] # <<>> /\ R[i - 1][Len(R[i - 1])] # <<".", ".">>
                 THEN SubSeq(R[i - 1], 1, Len(R[i - 1]) - 1)
                 ELSE IF absolute THEN R[i - 1] ELSE Append(R[i - 1], names[i])
            ELSE Append(R[i - 1], names[i])
    IN  R[Len(names)]

\* path.normalize
PathNormalize(p) ==
    IF p = <<>> THEN <<".">>
    ELSE LET names    == Resolved(Segments(p), IsAbsolute(p))
             body     == Join(names, <<Sep>>)
             trailing == IF p[Len(p)] = Sep /\ names # <<>> THEN <<Sep>> ELSE <<>>
         IN  IF IsAbsolute(p) THEN <<Sep>> \o body \o trailing
             ELSE IF names = <<>> THEN <<".">>
             ELSE body \o trailing

\* path.join
PathJoin(parts) ==
    PathNormalize(Join(SelectSeq(parts, LAMBDA part : part # <<>>), <<Sep>>))

\* path.dirname
PathDirname(p) ==
    LET ends == {i \in 1..Len(p) : p[i] # Sep}
        end  == IF ends = {} THEN 0 ELSE CHOOSE i \in ends : \A j \in ends : j <= i
        seps == {i \in 1..end : p[i] = Sep}
        cut  == CHOOSE i \in seps : \A j \in seps : j <= i
    IN  IF seps = {} THEN (IF IsAbsolute(p) THEN <<Sep>> ELSE <<".">>)
        ELSE IF \A i \in 1..cut : p[i] = Sep THEN <<Sep>>
        ELSE SubSeq(p, 1, CHOOSE i \in 1..cut :
                             /\ p[i] # Sep
                             /\ \A j \in (i + 1)..cut : p[j] = Sep)

\* path.parse(p).root
PathRoot(p) == IF IsAbsolute(p) THEN <<Sep>> ELSE <<>>

\* path.relative of two absolute paths
PathRelative(from, to) ==
    LET f      == Resolved(Segments(from), TRUE)
        t      == Resolved(Segments(to), TRUE)
        same   == {n \in 0..Len(f) : n <= Len(t) /\ SubSeq(f, 1, n) = SubSeq(t, 1, n)}
        common == CHOOSE n \in same : \A m \in same : m <= n
    IN  Join([i \in 1..(Len(f) - common) |-> <<".", ".">>]
             \o SubSeq(t, common + 1, Len(t)), <<Sep>>)

\* String.prototype.trim
Trim(s) ==
    LET keep == {i \in 1..Len(s) : s[i] \notin WhiteSpace \cup LineTerminators}
    IN  IF keep = {} THEN <<>>
        ELSE SubSeq(s, CHOOSE i \in keep : \A j \in keep : i <= j,
                       CHOOSE i \in keep : \A j \in keep : j <= i)

IsSuffix(p, s) == Len(p) <= Len(s) /\ SubSeq(s, Len(s) - Len(p) + 1, Len(s)) = p

(***************************************************************************)
(* getNodePath (src/src/testRunner.ts): the node binary and how it was     *)
(* found.                                                                  *)
(***************************************************************************)
LibNodeModules == <<Sep, "lib", Sep, "node_modules">>

BinNode == <<Sep, "bin", Sep, "node">>

\* process.env.NODE_PATH.replace(/\/lib\/node_modules$/, '/bin/node')
NodeBinPath(nodePathVar) ==
    IF IsSuffix(LibNodeModules, nodePathVar)
    THEN SubSeq(nodePathVar, 1, Len(nodePathVar) - Len(LibNodeModules)) \o BinNode
    ELSE nodePathVar

\* the loop over the workspace root and the directories above it: the
\* directory whose .nix-bin-stubs/node exists, <<>> when the loop ends
\* without one
RECURSIVE NixStubDir(_, _)
NixStubDir(currentDir, rootDir) ==
    IF currentDir = rootDir THEN <<>>
    ELSE IF existsSync(PathJoin(<<currentDir, <<".nix-bin-stubs">>, <<"node">>>>))
    THEN currentDir
    ELSE IF PathDirname(currentDir) = currentDir THEN <<>>
    ELSE NixStubDir(PathDirname(currentDir), rootDir)

\* process.env.NVM_DIR || path.join(os.homedir(), '.nvm')
NvmDir ==
    IF environ.NVM_DIR # <<>> THEN environ.NVM_DIR
    ELSE PathJoin(<<environ.homedir, <<".nvm">>>>)

\* nvmrcContent.replace(/^v/, '')
NodeVersion(nvmrcContent) ==
    IF nvmrcContent # <<>> /\ nvmrcContent[1] = "v"
    THEN Tail(nvmrcContent) ELSE nvmrcContent

NvmVersionPath(nodeVersion) ==
    PathJoin(<<NvmDir, <<"versions">>, <<"node">>, <<"v">> \o nodeVersion,
               <<"bin">>, <<"node">>>>)

NvmCurrentPath == PathJoin(<<NvmDir, <<"current">>, <<"bin">>, <<"node">>>>)

getNodePath(cfg, workspaceRoot) ==
    LET nodeBinPath == NodeBinPath(environ.NODE_PATH)
        nixDir      == NixStubDir(workspaceRoot, PathRoot(workspaceRoot))
        nvmrcPath   == PathJoin(<<workspaceRoot, <<".nvmrc">>>>)
        nodeVersion == NodeVersion(Trim(nvmrc.content))
        nvmNodePath == PathJoin(<<environ.NVM_BIN, <<"node">>>>)
    IN  IF cfg.nodePath # <<>>
        THEN [path     |-> cfg.nodePath,
              codePath |-> <<"Custom nodePath configuration">>]
        ELSE IF environ.NODE_PATH # <<>> /\ existsSync(nodeBinPath)
        THEN [path     |-> nodeBinPath,
              codePath |-> <<"Derived from NODE_PATH environment variable: ">>
                           \o environ.NODE_PATH]
        ELSE IF workspaceRoot # <<>> /\ nixDir # <<>>
        THEN [path     |-> PathJoin(<<nixDir, <<".nix-bin-stubs">>, <<"node">>>>),
              codePath |-> <<"Found .nix-bin-stubs/node in: ">> \o nixDir]
        ELSE IF /\ workspaceRoot # <<>>
                /\ existsSync(nvmrcPath)
                /\ ~nvmrc.throws
                /\ existsSync(NvmVersionPath(nodeVersion))
        THEN [path     |-> NvmVersionPath(nodeVersion),
              codePath |-> <<"Found via .nvmrc file (version: ">> \o nodeVersion
                           \o <<")">>]
        ELSE IF environ.NVM_BIN # <<>> /\ existsSync(nvmNodePath)
        THEN [path     |-> nvmNodePath,
              codePath |-> <<"Found via NVM_BIN environment variable: ">>
                           \o environ.NVM_BIN]
        ELSE IF existsSync(NvmCurrentPath)
        THEN [path     |-> NvmCurrentPath,
              codePath |-> <<"Found via NVM current symlink: ">> \o NvmCurrentPath]
        ELSE [path     |-> <<"node">>,
              codePath |-> <<"Using default: node from system PATH">>]

(***************************************************************************)
(* findMochaBinary (src/src/testRunner.ts).                                *)
(***************************************************************************)
\* the relative path returned when the walk finds nothing
MochaPath == "node_modules/.bin/mocha"

\* the loop from currentDir on: the path returned, and the paths given to
\* existsSync in order
RECURSIVE MochaWalk(_, _, _)
MochaWalk(currentDir, normalizedRootDir, workspaceRoot) ==
    LET mochaPath == PathJoin(<<currentDir, <<"node_modules">>, <<".bin">>,
                               <<"mocha">>>>)
        parentDir == PathDirname(currentDir)
        nothing   == [path |-> <<MochaPath>>, probed |-> <<mochaPath>>]
    IN  IF existsSync(mochaPath)
        THEN [path |-> mochaPath, probed |-> <<mochaPath>>]
        ELSE IF PathNormalize(currentDir) = normalizedRootDir THEN nothing
        ELSE IF parentDir = currentDir THEN nothing
        ELSE IF /\ workspaceRoot # <<>>
                /\ IsPrefix(<<".", ".">>,
                            PathRelative(PathNormalize(workspaceRoot),
                                         PathNormalize(parentDir)))
        THEN nothing
        ELSE LET above == MochaWalk(parentDir, normalizedRootDir, workspaceRoot)
             IN  [path |-> above.path, probed |-> <<mochaPath>> \o above.probed]

\* the walk of findMochaBinary(testFilePath, workspaceRoot)
MochaSearch(testFilePath, workspaceRoot) ==
    LET currentDir == PathDirname(testFilePath)
        rootDir    == IF workspaceRoot # <<>> THEN workspaceRoot
                      ELSE PathRoot(currentDir)
    IN  MochaWalk(currentDir, PathNormalize(rootDir), workspaceRoot)

findMochaBinary(testFilePath, workspaceRoot) ==
    MochaSearch(testFilePath, workspaceRoot).path

(***************************************************************************)
(* findMochaBinary on the test files of a small directory tree.  A         *)
(* directory name may begin with two dots; the workspace root is not set,  *)
(* or is a directory of the tree.                                          *)
(***************************************************************************)
\* the folder of the workspace
RunnerRoot == <<Sep, "w">>

DirNames == { <<"w">>, <<"p">>, <<".", ".", "x">> }

\* the directories at most MaxDepth names below the root
Dirs ==
    {<<Sep>>} \cup
    UNION {{Concat([i \in 1..n |-> <<Sep>> \o names[i]]) :
              names \in [1..n -> DirNames]} : n \in 1..MaxDepth}

WorkspaceRoots == {<<>>, RunnerRoot, RunnerRoot \o <<Sep, "p">>}

MochaIn(dir) ==
    (IF dir = <<Sep>> THEN <<>> ELSE dir)
    \o <<Sep, "node_modules", Sep, ".bin", Sep, "mocha">>

\* the directory of a file and the directories above it, innermost first
RECURSIVE Ancestors(_)
Ancestors(dir) ==
    IF PathDirname(dir) = dir THEN <<dir>>
    ELSE <<dir>> \o Ancestors(PathDirname(dir))

InitMocha ==
    /\ \E dir \in Dirs :
          /\ fileName = (IF dir = <<Sep>> THEN <<>> ELSE dir) \o <<Sep, "a">>
          /\ files \in SUBSET {MochaIn(Ancestors(dir)[i]) :
                                 i \in 1..Len(Ancestors(dir))}
    /\ \E root \in WorkspaceRoots :
          config = [DefaultConfig EXCEPT !.workspaceRoot = root]
    /\ workspaceFolders \in {<<>>, <<RunnerRoot>>}
    /\ nvmrc = [throws |-> TRUE, content |-> <<>>]
    /\ environ = NoEnviron
    /\ text = <<>>
    /\ lines = <<>>
    /\ lineNum = 0
    /\ parentStack = <<>>
    /\ testBlocks = <<>>
    /\ pc = "idle"
    /\ str = <<>>
    /\ call = NoCall
    /\ returned = <<>>
    /\ codeLenses = <<>>
    /\ terminals = <<>>
    /\ createCalls = 0
    /\ opened = 0
    /\ effects = <<>>
    /\ NotActivated

\* the workspace root buildTestCommand gives to getNodePath and
\* findMochaBinary
WorkspaceRoot(cfg) ==
    IF cfg.workspaceRoot # <<>> THEN cfg.workspaceRoot
    ELSE IF workspaceFolders # <<>> THEN workspaceFolders[1]
    ELSE <<>>

\* the call of findMochaBinary in buildTestCommand
FindMochaBinary ==
    /\ call = NoCall
    /\ call' = [op     |-> "findMochaBinary",
                arg    |-> <<fileName, WorkspaceRoot(config)>>,
                ret    |-> findMochaBinary(fileName, WorkspaceRoot(config)),
                probed |-> MochaSearch(fileName, WorkspaceRoot(config)).probed]
    /\ UNCHANGED <<text, lines, lineNum, parentStack, testBlocks, pc, str,
                   returned, lensVars, runnerVars, hostVars, extensionVars>>

NextMocha == FindMochaBinary

SpecMocha == InitMocha /\ [][NextMocha]_vars

(***************************************************************************)
(* getNodePath in the environments made of the places it looks at.         *)
(***************************************************************************)
\* a workspace root with a directory between it and the file system root
NodeRoot == RunnerRoot \o <<Sep, "p">>

NodeEnvirons ==
    [NODE_PATH : {<<>>, <<Sep, "n">>, <<Sep, "n">> \o LibNodeModules},
     NVM_DIR   : {<<>>, <<Sep, "d">>},
     NVM_BIN   : {<<>>, <<Sep, "b">>},
     homedir   : {<<Sep, "h">>}]

NvmrcFiles ==
    { [throws |-> TRUE,  content |-> <<>>],
      [throws |-> FALSE, content |-> <<"v", "8">>],
      [throws |-> FALSE, content |-> <<"8", "\n">>] }

\* the places of a node binary in an environment
NodePlaces(env) ==
    LET nvmDir == IF env.NVM_DIR # <<>> THEN env.NVM_DIR
                  ELSE env.homedir \o <<Sep, ".nvm">>
    IN  { <<Sep, "n">> \o BinNode,
          NodeRoot \o <<Sep, ".nix-bin-stubs", Sep, "node">>,
          RunnerRoot \o <<Sep, ".nix-bin-stubs", Sep, "node">>,
          NodeRoot \o <<Sep, ".nvmrc">>,
          nvmDir \o <<Sep, "versions", Sep, "node", Sep, "v", "8", Sep, "bin",
                      Sep, "node">>,
          <<Sep, "b", Sep, "node">>,
          nvmDir \o <<Sep, "current", Sep, "bin", Sep, "node">> }

InitNode ==
    /\ environ \in NodeEnvirons
    /\ files \in SUBSET NodePlaces(environ)
    /\ nvmrc \in NvmrcFiles
    /\ NodeRoot \o <<Sep, ".nvmrc">> \notin files => nvmrc.throws
    /\ \E custom \in {<<>>, <<Sep, "c">>} :
          config = [DefaultConfig EXCEPT !.nodePath = custom]
    /\ workspaceFolders \in {<<>>, <<NodeRoot>>}
    /\ fileName = NodeRoot \o <<Sep, "a">>
    /\ text = <<>>
    /\ lines = <<>>
    /\ lineNum = 0
    /\ parentStack = <<>>
    /\ testBlocks = <<>>
    /\ pc = "idle"
    /\ str = <<>>
    /\ call = NoCall
    /\ returned = <<>>
    /\ codeLenses = <<>>
    /\ terminals = <<>>
    /\ createCalls = 0
    /\ opened = 0
    /\ effects = <<>>
    /\ NotActivated

\* the call of getNodePath in buildTestCommand
GetNodePath ==
    /\ call = NoCall
    /\ call' = [op  |-> "getNodePath",
                arg |-> WorkspaceRoot(config),
                ret |-> getNodePath(config, WorkspaceRoot(config))]
    /\ UNCHANGED <<text, lines, lineNum, parentStack, testBlocks, pc, str,
                   returned, lensVars, runnerVars, hostVars, extensionVars>>

NextNode == GetNodePath

SpecNode == InitNode /\ [][NextNode]_vars

(***************************************************************************)
(* The operations of the TestRunner (src/src/testRunner.ts),               *)
(* with a user who opens and closes terminals.  The calls of the editor    *)
(* (createTerminal, show, sendText, appendLine, showErrorMessage) are      *)
(* taken not to throw.                                                     *)
(***************************************************************************)
TerminalName == "Mocha Tests"

Grep == <<"-", "-", "g", "r", "e", "p">>

\* config.get('env', {}) is a sequence of [key, value], in the order of
\* Object.entries
buildTestCommand(filePath, grepPattern, cfg) ==
    LET workspaceRoot == WorkspaceRoot(cfg)
        envVars == Join([i \in 1..Len(cfg.env) |->
                           cfg.env[i].key \o <<"=", "\"">> \o cfg.env[i].value
                           \o <<"\"">>], <<" ">>)
    IN  (IF envVars # <<>> THEN envVars \o <<" ">> ELSE <<>>)
        \o getNodePath(cfg, workspaceRoot).path \o <<" ">>
        \o findMochaBinary(filePath, workspaceRoot) \o <<" ">>
        \o <<"\"">> \o filePath \o <<"\"", " ">>
        \o (IF grepPattern # <<>>
            THEN Grep \o <<" ", "\"">> \o grepPattern \o <<"\"">>
            ELSE <<>>)

\* a variant that never looks for a terminal to reuse
getOrCreateTerminal_AlwaysCreate(terms, id) ==
    LET new == [name |-> TerminalName, id |-> id, by |-> "extension"]
    IN  [terminal |-> new, terminals |-> Append(terms, new), created |-> TRUE]

\* the terminal to use, window.terminals afterwards, and whether
\* createTerminal was called (the editor lists the terminal it creates)
getOrCreateTerminal(terms, id) ==
    LET found == {i \in 1..Len(terms) : terms[i].name = TerminalName}
        new   == [name |-> TerminalName, id |-> id, by |-> "extension"]
    IN  IF found # {}
        THEN [terminal  |-> terms[CHOOSE i \in found : \A j \in found : i <= j],
              terminals |-> terms,
              created   |-> FALSE]
        ELSE [terminal |-> new, terminals |-> Append(terms, new), created |-> TRUE]

\* String.prototype.replace with a string to find: the first occurrence
Replace(s, sub, by) ==
    LET at == {k \in 1..Len(s) : HasAt(s, k, sub)}
        k  == CHOOSE a \in at : \A b \in at : a <= b
    IN  IF at = {} THEN s
        ELSE SubSeq(s, 1, k - 1) \o by \o SubSeq(s, k + Len(sub), Len(s))

\* a variant that takes the first folder of the workspace
getWorkspaceFolder_First(fsPath) ==
    IF workspaceFolders = <<>> THEN <<>> ELSE workspaceFolders[1]

\* vscode.workspace.getWorkspaceFolder(uri): the innermost folder of the
\* workspace that holds the file, <<>> for undefined
getWorkspaceFolder(fsPath) ==
    LET holding == {i \in 1..Len(workspaceFolders) :
                      IsPrefix(Segments(workspaceFolders[i]), Segments(fsPath))}
    IN  IF holding = {} THEN <<>>
        ELSE workspaceFolders[CHOOSE i \in holding : \A k \in holding :
                                Len(workspaceFolders[k]) <= Len(workspaceFolders[i])]

\* the document of the runner: a suite with one case
RunnerDocument ==
    Join(<<Decl(0, KwDescribe, <<"a">>), Decl(1, KwIt, <<"a">>)>>, <<NL>>)

\* the test file of the runner and another folder of the workspace
RunnerFile == RunnerRoot \o <<Sep, "t", "e", "s", "t", Sep, "a">>

OtherRoot == <<Sep, "o">>

\* settings with every key of the extension set
RunnerConfig ==
    [env                |-> <<[key |-> <<"K">>, value |-> <<"1">>]>>,
     nodePath           |-> <<Sep, "n">>,
     workspaceRoot      |-> RunnerRoot,
     debugPreLaunchTask |-> <<"t">>,
     debugEnvFile       |-> <<"e">>]

InitRunner ==
    /\ text = RunnerDocument
    /\ fileName = RunnerFile
    /\ lines = <<>>
    /\ lineNum = 0
    /\ parentStack = <<>>
    /\ testBlocks = <<>>
    /\ pc = "idle"
    /\ str = <<>>
    /\ call = NoCall
    /\ returned = <<>>
    /\ codeLenses = <<>>
    /\ terminals = <<>>
    /\ createCalls = 0
    /\ opened = 0
    /\ effects = <<>>
    /\ files \in { {}, {RunnerFile},
                   {RunnerFile,
                    RunnerRoot \o <<Sep, "node_modules", Sep, ".bin", Sep, "mocha">>} }
    /\ nvmrc = [throws |-> TRUE, content |-> <<>>]
    /\ \E host \in { <<DefaultConfig, <<>>>>,
                     <<DefaultConfig, <<RunnerRoot>>>>,
                     <<RunnerConfig, <<OtherRoot>>>> } :
          /\ config = host[1]
          /\ workspaceFolders = host[2]
    /\ environ = NoEnviron
    /\ NotActivated

\* a variant that sends the command before the terminal is shown
RunInTerminal_CommandFirst(logged, command) ==
    LET got == getOrCreateTerminal(terminals, createCalls + opened + 1)
    IN  /\ terminals' = got.terminals
        /\ createCalls' = IF got.created THEN createCalls + 1 ELSE createCalls
        /\ effects' =
              (IF got.created
               THEN <<[op |-> "createTerminal", terminal |-> got.terminal.id]>>
               ELSE <<>>)
              \o <<[op |-> "sendText", terminal |-> got.terminal.id,
                    text |-> command],
                   [op |-> "show", terminal |-> got.terminal.id],
                   [op |-> "appendLine", line |-> logged],
                   [op |-> "appendLine", line |-> <<"Command: ">> \o command],
                   [op |-> "sendText", terminal |-> got.terminal.id,
                    text |-> <<NL>>]>>

\* what runTest and runAllTests do once the file is known to exist
RunInTerminal(logged, command) ==
    LET got == getOrCreateTerminal(terminals, createCalls + opened + 1)
    IN  /\ terminals' = got.terminals
        /\ createCalls' = IF got.created THEN createCalls + 1 ELSE createCalls
        /\ effects' =
              (IF got.created
               THEN <<[op |-> "createTerminal", terminal |-> got.terminal.id]>>
               ELSE <<>>)
              \o <<[op |-> "show", terminal |-> got.terminal.id],
                   [op |-> "appendLine", line |-> logged],
                   [op |-> "appendLine", line |-> <<"Command: ">> \o command],
                   [op |-> "sendText", terminal |-> got.terminal.id,
                    text |-> <<NL>>],
                   [op |-> "sendText", terminal |-> got.terminal.id,
                    text |-> command]>>

FileNotFound(filePath) ==
    /\ effects' = <<[op      |-> "showErrorMessage",
                     message |-> <<"Test file not found: ">> \o filePath]>>
    /\ UNCHANGED <<terminals, createCalls>>

\* what getTestCommand returns for block b: null, or the command
getTestCommand(filePath, b) ==
    IF ~existsSync(filePath)
    THEN [op |-> "getTestCommand", arg |-> b, null |-> TRUE, ret |-> <<>>]
    ELSE [op |-> "getTestCommand", arg |-> b, null |-> FALSE,
          ret |-> buildTestCommand(filePath, buildGrepPattern(testBlocks, b),
                                   config)]

\* getTestCommand(uri, testBlock) on a block of the parsed document
GetTestCommand ==
    /\ pc = "parsed"
    /\ \E b \in 1..Len(testBlocks) : call' = getTestCommand(fileName, b)
    /\ effects' = <<>>
    /\ UNCHANGED <<text, lines, lineNum, parentStack, testBlocks, pc, str,
                   returned, lensVars, terminals, createCalls, opened,
                   hostVars, extensionVars>>

\* runTest(uri, testBlock) on a block of the parsed document
RunTest ==
    /\ pc = "parsed"
    /\ \E b \in 1..Len(testBlocks) :
          IF ~existsSync(fileName)
          THEN FileNotFound(fileName)
          ELSE RunInTerminal(<<"Running test: ">> \o testBlocks[b].fullName,
                             buildTestCommand(fileName,
                                              buildGrepPattern(testBlocks, b),
                                              config))
    /\ UNCHANGED <<parserVars, returned, lensVars, opened,
                   hostVars, extensionVars>>

\* the configuration debugTest gives to startDebugging
DebugConfig(filePath, testBlock, grepPattern, workspaceFolder, cfg) ==
    [type                   |-> "node",
     request                |-> "launch",
     name                   |-> <<"Debug: ">> \o testBlock.name,
     outputCapture          |-> "std",
     program                |-> <<"${workspaceFolder}/node_modules/.bin/mocha">>,
     env                    |-> cfg.env,
     args                   |-> <<filePath, Grep, grepPattern>>,
     cwd                    |-> workspaceFolder,
     internalConsoleOptions |-> "openOnSessionStart"]
    @@ (IF cfg.debugPreLaunchTask # <<>>
        THEN [preLaunchTask |-> cfg.debugPreLaunchTask] ELSE <<>>)
    @@ (IF cfg.debugEnvFile # <<>>
        THEN [envFile |-> cfg.debugEnvFile] ELSE <<>>)
    @@ (IF cfg.nodePath # <<>>
        THEN [runtimeExecutable |-> cfg.nodePath] ELSE <<>>)

\* debugTest(uri, testBlock) on a block of the parsed document
DebugTest ==
    /\ pc = "parsed"
    /\ \E b \in 1..Len(testBlocks) :
          LET workspaceFolder == getWorkspaceFolder(fileName)
          IN  effects' =
                IF ~existsSync(fileName)
                THEN <<[op      |-> "showErrorMessage",
                        message |-> <<"Test file not found: ">> \o fileName]>>
                ELSE IF workspaceFolder = <<>>
                THEN <<[op      |-> "showErrorMessage",
                        message |-> <<"No workspace folder found for test file">>]>>
                ELSE <<[op            |-> "startDebugging",
                        folder        |-> workspaceFolder,
                        configuration |->
                            DebugConfig(fileName, testBlocks[b],
                                        buildGrepPattern(testBlocks, b),
                                        workspaceFolder, config)]>>
    /\ UNCHANGED <<parserVars, returned, lensVars, terminals, createCalls,
                   opened, hostVars, extensionVars>>

\* runAllTests(uri)
RunAllTests ==
    /\ IF ~existsSync(fileName)
       THEN FileNotFound(fileName)
       ELSE RunInTerminal(<<"Running all tests in: ">> \o fileName,
                          Replace(buildTestCommand(fileName, <<>>, config),
                                  <<" ">> \o Grep \o <<" ", "\"", "\"">>, <<>>))
    /\ UNCHANGED <<parserVars, returned, lensVars, opened,
                   hostVars, extensionVars>>

\* the user opens a terminal
OpenTerminal ==
    /\ opened < MaxUserTerminals
    /\ \E name \in {"bash", TerminalName} :
          terminals' = Append(terminals, [name |-> name,
                                          id   |-> createCalls + opened + 1,
                                          by   |-> "user"])
    /\ opened' = opened + 1
    /\ UNCHANGED <<parserVars, returned, lensVars, createCalls, effects,
                   hostVars, extensionVars>>

\* the user closes a terminal: the editor takes it off window.terminals
CloseTerminal ==
    /\ createCalls < MaxCreateCalls
    /\ \E i \in 1..Len(terminals) :
          terminals' = [k \in 1..(Len(terminals) - 1) |->
                          IF k < i THEN terminals[k] ELSE terminals[k + 1]]
    /\ UNCHANGED <<parserVars, returned, lensVars, createCalls, opened, effects,
                   hostVars, extensionVars>>

NextRunner ==
    \/ ParseDocument
    \/ ParseLine
    \/ ParseReturn
    \/ GetTestCommand
    \/ RunTest
    \/ DebugTest
    \/ RunAllTests
    \/ OpenTerminal
    \/ CloseTerminal

SpecRunner == InitRunner /\ [][NextRunner]_vars

(***************************************************************************)
(* activate and deactivate (src/src/extension.ts) and the commands that    *)
(* activate registers, on the document and the file of the runner.         *)
(***************************************************************************)
Commands ==
    <<"mochaTestLens.runTest", "mochaTestLens.debugTest",
      "mochaTestLens.copyTestCommand", "mochaTestLens.runAllTests",
      "mochaTestLens.testExtension">>

\* what a call of activate that passes the guard pushes to
\* context.subscriptions
Disposables(providerRegistered) ==
    (IF providerRegistered THEN <<"codeLensProvider">> ELSE <<>>)
    \o Commands
    \o <<"onDidChangeConfiguration", "statusBarItem",
         "onDidChangeActiveTextEditor", "outputChannel">>

Registered(name) == \E i \in 1..Len(subscriptions) : subscriptions[i] = name

InitExtension ==
    /\ text = RunnerDocument
    /\ fileName = RunnerFile
    /\ lines = <<>>
    /\ lineNum = 0
    /\ parentStack = <<>>
    /\ testBlocks = <<>>
    /\ pc = "idle"
    /\ str = <<>>
    /\ call = NoCall
    /\ returned = <<>>
    /\ codeLenses = <<>>
    /\ terminals = <<>>
    /\ createCalls = 0
    /\ opened = 0
    /\ effects = <<>>
    /\ files \in { {}, {RunnerFile} }
    /\ nvmrc = [throws |-> TRUE, content |-> <<>>]
    /\ config = DefaultConfig
    /\ environ = NoEnviron
    /\ workspaceFolders = <<RunnerRoot>>
    /\ NotActivated

\* a variant of activate without the guard
Activate_NoGuard ==
    /\ activateCalls < MaxActivateCalls
    /\ activateCalls' = activateCalls + 1
    /\ isActivated' = TRUE
    /\ testRunner' = [id |-> testRunner.id + 1, disposed |-> FALSE]
    /\ \E thrown \in BOOLEAN :
          /\ subscriptions' = subscriptions \o Disposables(~thrown)
          /\ effects' = IF thrown
                        THEN <<[op      |-> "showErrorMessage",
                                message |-> <<"Failed to register CodeLens provider: ">>]>>
                        ELSE <<>>
    /\ UNCHANGED <<parserVars, returned, lensVars, terminals, createCalls,
                   opened, hostVars>>

\* activate(context); registerCodeLensProvider may throw
Activate ==
    /\ activateCalls < MaxActivateCalls
    /\ activateCalls' = activateCalls + 1
    /\ IF isActivated
       THEN /\ effects' = <<>>
            /\ UNCHANGED <<isActivated, testRunner, subscriptions>>
       ELSE /\ isActivated' = TRUE
            /\ testRunner' = [id |-> testRunner.id + 1, disposed |-> FALSE]
            /\ \E thrown \in BOOLEAN :
                  /\ subscriptions' = subscriptions \o Disposables(~thrown)
                  /\ effects' =
                        IF thrown
                        THEN <<[op      |-> "showErrorMessage",
                                message |-> <<"Failed to register CodeLens provider: ">>]>>
                        ELSE <<>>
    /\ UNCHANGED <<parserVars, returned, lensVars, terminals, createCalls,
                   opened, hostVars>>

\* deactivate(): dispose of the runner if there is one
Deactivate ==
    /\ IF testRunner.id # 0
       THEN /\ testRunner' = [testRunner EXCEPT !.disposed = TRUE]
            /\ effects' = <<[op |-> "dispose", runner |-> testRunner.id]>>
       ELSE /\ effects' = <<>>
            /\ UNCHANGED testRunner
    /\ UNCHANGED <<parserVars, returned, lensVars, terminals, createCalls,
                   opened, hostVars, isActivated, subscriptions, activateCalls>>

\* the editor asks the registered provider for the lenses of the document
ProvideCodeLenses ==
    /\ Registered("codeLensProvider")
    /\ ProvideCodeLensesParse

CommandRunTest ==
    /\ Registered("mochaTestLens.runTest")
    /\ RunTest

CommandDebugTest ==
    /\ Registered("mochaTestLens.debugTest")
    /\ DebugTest

\* the handler of mochaTestLens.copyTestCommand
CommandCopyTestCommand ==
    /\ Registered("mochaTestLens.copyTestCommand")
    /\ pc = "parsed"
    /\ \E b \in 1..Len(testBlocks) :
          LET command == getTestCommand(fileName, b)
          IN  /\ call' = command
              /\ effects' =
                    IF ~command.null
                    THEN <<[op |-> "clipboard.writeText", text |-> command.ret],
                           [op      |-> "showInformationMessage",
                            message |-> <<"Test command copied to clipboard">>]>>
                    ELSE <<[op      |-> "showErrorMessage",
                            message |-> <<"Failed to generate test command">>]>>
    /\ UNCHANGED <<text, lines, lineNum, parentStack, testBlocks, pc, str,
                   returned, lensVars, terminals, createCalls, opened,
                   hostVars, extensionVars>>

CommandRunAllTests ==
    /\ Registered("mochaTestLens.runAllTests")
    /\ RunAllTests

NextExtension ==
    \/ Activate
    \/ Deactivate
    \/ ProvideCodeLenses
    \/ ParseLine
    \/ ParseReturn
    \/ CommandRunTest
    \/ CommandDebugTest
    \/ CommandCopyTestCommand
    \/ CommandRunAllTests

SpecExtension == InitExtension /\ [][NextExtension]_vars

(***************************************************************************)
(* How the pattern is read: Mocha compiles the --grep string with          *)
(* new RegExp and tests it against the full title of each test.  The       *)
(* reader below covers literals, escapes of syntax characters, the dot,    *)
(* the quantifiers * + ? and the anchors ^ $; groups, classes, braces and  *)
(* alternation are outside it (RegexSupported is FALSE for them).          *)
(***************************************************************************)
RECURSIVE RegexTokens(_)
RegexTokens(p) ==
    IF p = <<>> THEN <<>>
    ELSE IF p[1] = "\\"
         THEN IF Len(p) = 1 THEN <<[k |-> "bad", c |-> "\\"]>>
              ELSE <<[k |-> IF p[2] \in RegexSpecials THEN "lit" ELSE "class",
                      c |-> p[2]]>> \o RegexTokens(SubSeq(p, 3, Len(p)))
         ELSE <<[k |-> IF p[1] \in RegexSpecials THEN "meta" ELSE "lit",
                 c |-> p[1]]>> \o RegexTokens(Tail(p))

IsAtom(tok) == tok.k = "lit" \/ (tok.k = "meta" /\ tok.c = ".")

IsQuantifier(tok) == tok.k = "meta" /\ tok.c \in {"*", "+", "?"}

IsAnchor(tok) == tok.k = "meta" /\ tok.c \in {"^", "$"}

RegexSupported(p) ==
    LET toks == RegexTokens(p)
    IN  \A i \in 1..Len(toks) :
          \/ IsAtom(toks[i])
          \/ IsAnchor(toks[i])
          \/ IsQuantifier(toks[i]) /\ i > 1 /\ IsAtom(toks[i - 1])

AtomMatches(tok, ch) == tok.k = "meta" \/ tok.c = ch

\* whether toks[i..] match t from position j on
RECURSIVE MatchAt(_, _, _, _)
MatchAt(toks, i, t, j) ==
    IF i > Len(toks) THEN TRUE
    ELSE IF IsAnchor(toks[i])
         THEN /\ IF toks[i].c = "^" THEN j = 1 ELSE j = Len(t) + 1
              /\ MatchAt(toks, i + 1, t, j)
    ELSE LET here == j <= Len(t) /\ AtomMatches(toks[i], t[j])
             q    == IF i < Len(toks) /\ IsQuantifier(toks[i + 1])
                     THEN toks[i + 1].c ELSE ""
         IN  CASE q = ""  -> here /\ MatchAt(toks, i + 1, t, j + 1)
               [] q = "?" -> \/ here /\ MatchAt(toks, i + 2, t, j + 1)
                             \/ MatchAt(toks, i + 2, t, j)
               [] q = "*" -> \/ here /\ MatchAt(toks, i, t, j + 1)
                             \/ MatchAt(toks, i + 2, t, j)
               [] q = "+" -> /\ here
                             /\ \/ MatchAt(toks, i, t, j + 1)
                                \/ MatchAt(toks, i + 2, t, j + 1)

\* new RegExp(p).test(t)
RegexTest(p, t) ==
    \E j \in 1..(Len(t) + 1) : MatchAt(RegexTokens(p), 1, t, j)

(***************************************************************************)
(* Reading the parent links of the returned blocks.                        *)
(***************************************************************************)
Blocks == 1..Len(testBlocks)

\* the ancestors of b and b itself, outermost first
RECURSIVE Chain(_)
Chain(b) == IF b = 0 THEN <<>> ELSE Append(Chain(testBlocks[b].parent), b)

Depth(b) == Len(Chain(b)) - 1

\* a is a proper ancestor of b
IsAncestor(a, b) == a # b /\ \E i \in 1..Len(Chain(b)) : Chain(b)[i] = a

Last(s) == s[Len(s)]

PatternCalled == pc = "parsed" /\ call.op = "buildGrepPattern"

(***************************************************************************)
(* C1: every block's fullName is its parent's fullName, a space and its    *)
(* own name, or its own name alone when it has no parent; that is, the     *)
(* names of its ancestor chain, outermost first, joined by spaces.         *)
(***************************************************************************)
C1_FullNameFollowsParentChain ==
    \A b \in Blocks :
        LET blk == testBlocks[b]
        IN  /\ blk.fullName =
                  IF blk.parent = 0 THEN blk.name
                  ELSE testBlocks[blk.parent].fullName \o <<" ">> \o blk.name
            /\ blk.fullName =
                  Join([i \in 1..Len(Chain(b)) |-> testBlocks[Chain(b)[i]].name],
                       <<" ">>)

\* a block of depth 2 (a parent and a grandparent) has been returned
C1_Witness ==
    /\ pc = "parsed"
    /\ \E b \in Blocks : Depth(b) = 2

(***************************************************************************)
(* The escaped form of a string, position by position: character i of s    *)
(* stands at position i + (the number of escape-set characters among the   *)
(* first i), and the position before it holds a backslash when s[i] is in  *)
(* the escape set.                                                         *)
(***************************************************************************)
EscapeSet ==
    {".", "*", "+", "?", "^", "$", "{", "}", "(", ")", "|", "[", "]", "\\"}

NumSpecial(s, i) == Cardinality({k \in 1..i : s[k] \in EscapeSet})

IsEscapedForm(e, s) ==
    /\ Len(e) = Len(s) + NumSpecial(s, Len(s))
    /\ \A i \in 1..Len(s) :
          /\ e[i + NumSpecial(s, i)] = s[i]
          /\ s[i] \in EscapeSet => e[i + NumSpecial(s, i) - 1] = "\\"

EscapedForm(s) ==
    [k \in 1..(Len(s) + NumSpecial(s, Len(s))) |->
        IF \E i \in 1..Len(s) : i + NumSpecial(s, i) = k
        THEN s[CHOOSE i \in 1..Len(s) : i + NumSpecial(s, i) = k]
        ELSE "\\"]

\* the strings a pattern is tried on, besides the names of the document
ProbeAlphabet == {"a", "."}

Probes == UNION { [1..n -> ProbeAlphabet] : n \in 0..(MaxStrLen + 1) }

(***************************************************************************)
(* C2: buildGrepPattern(b) is '^', then the escaped names of b's ancestor  *)
(* chain, outermost first and b's own name returned, joined by single spaces,  *)
(* then '$' exactly when b is an 'it' block; the pattern of an 'it' block  *)
(* starts with '^' and ends with '$'.                                      *)
(***************************************************************************)
C2_PatternIsAnchoredEscapedChain ==
    PatternCalled =>
        LET b     == call.arg
            chain == Chain(b)
            body  == Join([i \in 1..Len(chain) |->
                             EscapedForm(testBlocks[chain[i]].name)], <<" ">>)
        IN  /\ call.ret = <<"^">> \o body \o
                  (IF testBlocks[b].type = "it" THEN <<"$">> ELSE <<>>)
            /\ testBlocks[b].type = "it" =>
                  Head(call.ret) = "^" /\ Last(call.ret) = "$"

\* the pattern of an 'it' block two suites deep, one of them named a$
C2_Witness ==
    /\ PatternCalled
    /\ testBlocks[call.arg].type = "it"
    /\ Depth(call.arg) = 2
    /\ \E a \in Blocks : IsAncestor(a, call.arg) /\ Last(testBlocks[a].name) = "$"

(***************************************************************************)
(* C3 as claimed: the pattern of a 'describe' block starts with '^' and    *)
(* never ends with the character '$'.                                      *)
(***************************************************************************)
C3_SuitePatternNeverEndsWithDollar ==
    (PatternCalled /\ testBlocks[call.arg].type = "describe") =>
        Head(call.ret) = "^" /\ Last(call.ret) # "$"

(***************************************************************************)
(* C3 as amended: the pattern of a 'describe' block starts with '^' and    *)
(* never ends with an end anchor; its returned character is '$' exactly when   *)
(* the suite's own label ends with '$', and that '$' is then the escaped   *)
(* literal: a backslash precedes it and the pattern's returned regex token is  *)
(* a literal.                                                              *)
(***************************************************************************)
C3_SuitePatternEndsWithEscapedDollarOnly ==
    (PatternCalled /\ testBlocks[call.arg].type = "describe") =>
        /\ Head(call.ret) = "^"
        /\ Last(call.ret) = "$" <=> Last(testBlocks[call.arg].name) = "$"
        /\ Last(call.ret) = "$" => call.ret[Len(call.ret) - 1] = "\\"
        /\ Last(RegexTokens(call.ret)).k = "lit"

\* the pattern of a nested suite whose label ends with '$'
C3_Witness ==
    /\ PatternCalled
    /\ testBlocks[call.arg].type = "describe"
    /\ testBlocks[call.arg].parent # 0
    /\ Last(testBlocks[call.arg].name) = "$"

(***************************************************************************)
(* C4: escapeRegex(s) is s with one backslash added before every           *)
(* occurrence of a character of the escape set and every other character   *)
(* unchanged, in the same order; the empty string gives the empty string.  *)
(***************************************************************************)
C4_EscapeRegexAddsOneBackslash ==
    call.op = "escapeRegex" =>
        /\ IsEscapedForm(call.ret, call.arg)
        /\ call.arg = <<>> => call.ret = <<>>
        /\ (\A i \in 1..Len(call.arg) : call.arg[i] \notin EscapeSet)
              => call.ret = call.arg

\* escapeRegex was called on a string that holds a character of the escape
\* set followed by one outside it
C4_Witness ==
    /\ call.op = "escapeRegex"
    /\ \E i \in 1..(Len(call.arg) - 1) :
          call.arg[i] \in EscapeSet /\ call.arg[i + 1] \notin EscapeSet

(***************************************************************************)
(* C5: read as a regular expression, the escaped label inside the pattern  *)
(* is a sequence of literals spelling the label, so the pattern of an      *)
(* 'it' block with that label matches the label and no other string, and   *)
(* the pattern of a 'describe' block matches exactly the strings that      *)
(* begin with the label.                                                   *)
(***************************************************************************)
C5_EscapedLabelIsLiteral ==
    (PatternCalled /\ testBlocks[call.arg].parent = 0) =>
        LET label == testBlocks[call.arg].name
            isIt  == testBlocks[call.arg].type = "it"
            toks  == RegexTokens(call.ret)
            inner == SubSeq(toks, 2, IF isIt THEN Len(toks) - 1 ELSE Len(toks))
        IN  /\ RegexSupported(call.ret)
            /\ \A i \in 1..Len(inner) : inner[i].k = "lit"
            /\ [i \in 1..Len(inner) |-> inner[i].c] = label
            /\ \A t \in Probes \cup {label} :
                  RegexTest(call.ret, t) <=>
                      IF isIt THEN t = label ELSE IsPrefix(label, t)

\* the pattern of an 'it' block whose label, had it not been escaped, would
\* as a regular expression have matched another string
C5_Witness ==
    /\ PatternCalled
    /\ testBlocks[call.arg].type = "it"
    /\ LET label == testBlocks[call.arg].name
           raw   == <<"^">> \o label \o <<"$">>
       IN  /\ \E i \in 1..Len(label) : label[i] \in EscapeSet
           /\ RegexSupported(raw)
           /\ \E t \in Probes : t # label /\ RegexTest(raw, t)

(***************************************************************************)
(* C6: the pattern of an 'it' block matches the block's own fullName and   *)
(* matches the fullName of no block of the same parse whose fullName       *)
(* differs.                                                                *)
(***************************************************************************)
C6_CasePatternMatchesWholeNameOnly ==
    (PatternCalled /\ testBlocks[call.arg].type = "it") =>
        /\ RegexSupported(call.ret)
        /\ RegexTest(call.ret, testBlocks[call.arg].fullName)
        /\ \A c \in Blocks :
              testBlocks[c].fullName # testBlocks[call.arg].fullName
                  => ~RegexTest(call.ret, testBlocks[c].fullName)

\* the pattern of an 'it' block whose fullName is a proper prefix of
\* another block's fullName
C6_Witness ==
    /\ PatternCalled
    /\ testBlocks[call.arg].type = "it"
    /\ \E c \in Blocks :
          /\ testBlocks[c].fullName # testBlocks[call.arg].fullName
          /\ IsPrefix(testBlocks[call.arg].fullName, testBlocks[c].fullName)

(***************************************************************************)
(* C7: the pattern of a 'describe' block matches the fullName of every     *)
(* block nested under it at any depth: that fullName begins with the       *)
(* suite's fullName followed by a space.                                   *)
(***************************************************************************)
C7_SuitePatternMatchesDescendants ==
    (PatternCalled /\ testBlocks[call.arg].type = "describe") =>
        \A c \in Blocks :
            IsAncestor(call.arg, c) =>
                /\ RegexTest(call.ret, testBlocks[c].fullName)
                /\ IsPrefix(testBlocks[call.arg].fullName \o <<" ">>,
                            testBlocks[c].fullName)

\* the pattern of a suite that has a grandchild
C7_Witness ==
    /\ PatternCalled
    /\ testBlocks[call.arg].type = "describe"
    /\ \E c \in Blocks :
          /\ IsAncestor(call.arg, c)
          /\ testBlocks[c].parent # call.arg

(***************************************************************************)
(* C8 as claimed: the pattern of a suite matches the fullName of a block   *)
(* only if the block is the suite or a descendant of it, and the pattern   *)
(* of an 'it' block matches the fullName of that block only.  A filter     *)
(* sees names only, so blocks are taken up to their chain of names: a      *)
(* block counts as inside the suite when its chain of names begins with    *)
(* the suite's, and as the 'it' block when its chain of names is the same. *)
(***************************************************************************)
Names(b) == [i \in 1..Len(Chain(b)) |-> testBlocks[Chain(b)[i]].name]

C8_PatternSelectsOnlyItsSubtree ==
    PatternCalled =>
        \A c \in Blocks :
            RegexTest(call.ret, testBlocks[c].fullName) =>
                IF testBlocks[call.arg].type = "describe"
                THEN IsPrefix(Names(call.arg), Names(c))
                ELSE Names(c) = Names(call.arg)

(***************************************************************************)
(* C9 as claimed: any two distinct blocks of one parse have different      *)
(* fullNames.                                                              *)
(***************************************************************************)
C9_FullNamesUnique ==
    \A b, c \in Blocks :
        b # c => testBlocks[b].fullName # testBlocks[c].fullName

(***************************************************************************)
(* C9 as amended: two distinct blocks of one parse that have the same      *)
(* parent (or both none) have the same fullName exactly when they have the *)
(* same name.                                                              *)
(***************************************************************************)
C9_SiblingFullNamesDifferWithNames ==
    \A b, c \in Blocks :
        (b # c /\ testBlocks[b].parent = testBlocks[c].parent) =>
            (testBlocks[b].fullName = testBlocks[c].fullName
                <=> testBlocks[b].name = testBlocks[c].name)

\* two blocks under one suite with different names
C9_Witness ==
    /\ pc = "parsed"
    /\ \E b, c \in Blocks :
          /\ b # c
          /\ testBlocks[b].parent # 0
          /\ testBlocks[b].parent = testBlocks[c].parent
          /\ testBlocks[b].name # testBlocks[c].name

(***************************************************************************)
(* C10: the column of a block's parent is strictly smaller than the        *)
(* block's column.                                                         *)
(***************************************************************************)
C10_ParentColumnSmaller ==
    \A b \in Blocks :
        testBlocks[b].parent # 0 =>
            testBlocks[testBlocks[b].parent].column < testBlocks[b].column

\* a returned block follows a describe of equal column and a deeper block
C10_Witness ==
    /\ pc = "parsed"
    /\ \E b, s \in Blocks :
          /\ s < b
          /\ testBlocks[s].type = "describe"
          /\ testBlocks[s].column = testBlocks[b].column
          /\ testBlocks[b].parent # 0

(***************************************************************************)
(* C11: the parent of a returned block is a 'describe' block of the same   *)
(* sequence that occurs strictly earlier, in position and in line; an 'it' *)
(* block is never a parent, and following parent references from any      *)
(* block ends at a block without parent after fewer steps than there are   *)
(* blocks before it.                                                       *)
(***************************************************************************)
C11_ParentIsEarlierDescribe ==
    \A b \in Blocks :
        LET p == testBlocks[b].parent
        IN  /\ p \in 0..(b - 1)
            /\ p # 0 =>
                  /\ testBlocks[p].type = "describe"
                  /\ testBlocks[p].line < testBlocks[b].line
            /\ \A c \in Blocks :
                  testBlocks[c].type = "it" => testBlocks[b].parent # c

\* a case follows, more deeply indented, a case that has a parent
C11_Witness ==
    /\ pc = "parsed"
    /\ \E b, c \in Blocks :
          /\ b < c
          /\ testBlocks[b].type = "it"
          /\ testBlocks[b].parent # 0
          /\ testBlocks[b].column < testBlocks[c].column
          /\ testBlocks[c].parent = testBlocks[b].parent

(***************************************************************************)
(* C13: two blocks of the same column with only blocks of larger column    *)
(* between them are siblings: the later one has the parent of the earlier  *)
(* one, and the earlier one is not its parent.  In particular a second     *)
(* describe at the column of a first one without parent has no parent.     *)
(***************************************************************************)
C13_SameColumnBlocksAreSiblings ==
    \A b1, b2 \in Blocks :
        ( /\ b1 < b2
          /\ testBlocks[b1].column = testBlocks[b2].column
          /\ \A m \in (b1 + 1)..(b2 - 1) :
                testBlocks[m].column > testBlocks[b1].column )
        => /\ testBlocks[b2].parent = testBlocks[b1].parent
           /\ testBlocks[b2].parent # b1

\* a describe, a deeper block under it, then a describe at the first column
C13_Witness ==
    /\ pc = "parsed"
    /\ \E b1, m, b2 \in Blocks :
          /\ b1 < m /\ m < b2
          /\ testBlocks[b1].type = "describe"
          /\ testBlocks[b2].type = "describe"
          /\ testBlocks[b1].column = testBlocks[b2].column
          /\ testBlocks[m].parent = b1
          /\ \A k \in (b1 + 1)..(b2 - 1) :
                testBlocks[k].column > testBlocks[b1].column

(***************************************************************************)
(* Reading the document by its characters.                                 *)
(***************************************************************************)
\* the number of line breaks of the document
LineBreaks == Cardinality({m \in 1..Len(text) : text[m] = NL})

\* the characters between the k-th line break and the next one (k from 0)
TextLine(k) ==
    LET start == CHOOSE p \in 1..(Len(text) + 1) :
                    /\ p = 1 \/ text[p - 1] = NL
                    /\ Cardinality({m \in 1..(p - 1) : text[m] = NL}) = k
        stops == {e \in start..(Len(text) + 1) :
                    e = Len(text) + 1 \/ text[e] = NL}
        stop  == CHOOSE e \in stops : \A f \in stops : e <= f
    IN  SubSeq(text, start, stop - 1)

(***************************************************************************)
(* C12: the returned blocks are in strictly ascending order of line, so a  *)
(* line yields at most one block; the line of a block is the number of     *)
(* line breaks before the declaration it was made from, and the block has  *)
(* the name and the column of that declaration.                            *)
(***************************************************************************)
C12_BlocksAscendByLineOfText ==
    pc \in {"parsing", "parsed"} =>
      /\ \A b, c \in Blocks : b < c => testBlocks[b].line < testBlocks[c].line
      /\ \A b \in Blocks :
            /\ testBlocks[b].line \in 0..LineBreaks
            /\ LET decl == TextLine(testBlocks[b].line)
               IN  /\ testPattern(decl).matched
                   /\ testPattern(decl).testName = testBlocks[b].name
                   /\ SearchNonSpace(decl) = testBlocks[b].column

\* two blocks returned from a document whose first line is empty
C12_Witness ==
    /\ pc = "parsed"
    /\ Len(testBlocks) = 2
    /\ testBlocks[1].line > 0
    /\ TextLine(0) = <<>>

(***************************************************************************)
(* C14: every step of a parseDocument call reads the next line or, after   *)
(* the returned line, returns, so the call returns once every line of the text *)
(* was read, whatever the text.  A line that declares nothing adds no      *)
(* block, and a text all of whose lines declare nothing, the empty text    *)
(* included, gives the empty sequence.                                     *)
(***************************************************************************)
C14_ParseReturnsAndSkipsOtherLines ==
    /\ [][pc = "parsing" =>
            \/ pc' = "parsing" /\ lineNum < Len(lines) /\ lineNum' = lineNum + 1
            \/ pc' = "parsed" /\ lineNum = Len(lines)]_vars
    /\ [](pc = "parsed" =>
            /\ lineNum = Len(lines)
            /\ Len(lines) = LineBreaks + 1
            /\ (\A i \in 1..Len(lines) : lines[i] \in NonDeclarations)
                  => testBlocks = <<>>
            /\ \A i \in 1..Len(lines) :
                  lines[i] \in NonDeclarations =>
                      \A b \in Blocks : testBlocks[b].line # i - 1)

\* the empty text has been parsed
C14_Witness ==
    /\ pc = "parsed"
    /\ text = <<>>
    /\ testBlocks = <<>>

(***************************************************************************)
(* Reading a line as JavaScript reads it: where the label of a declaration *)
(* opens and closes (a backslash escapes the character after it), and      *)
(* whether a line begins inside a comment or a template string.            *)
(***************************************************************************)
\* the position of the quote that opens the label of a declaration, 0 when
\* the line is not a keyword, an optional modifier, a parenthesis and a quote
OpeningQuote(line) ==
    LET i0 == SkipWs(line, 1)
        n  == IF HasAt(line, i0, KwDescribe) THEN Len(KwDescribe)
              ELSE IF HasAt(line, i0, KwIt) THEN Len(KwIt) ELSE 0
        i2 == IF HasAt(line, i0 + n, ModOnly) \/ HasAt(line, i0 + n, ModSkip)
              THEN i0 + n + 5 ELSE i0 + n
        i3 == SkipWs(line, i2)
        i4 == SkipWs(line, i3 + 1)
    IN  IF /\ n > 0
           /\ i3 <= Len(line) /\ line[i3] = "("
           /\ i4 <= Len(line) /\ line[i4] \in Quotes
        THEN i4 ELSE 0

\* the position from k on of the quote q that ends a literal, 0 when the
\* literal does not end on the line
RECURSIVE LiteralEnd(_, _, _)
LiteralEnd(line, k, q) ==
    IF k > Len(line) THEN 0
    ELSE IF line[k] = "\\" THEN LiteralEnd(line, k + 2, q)
    ELSE IF line[k] = q THEN k
    ELSE LiteralEnd(line, k + 1, q)

\* where the characters of line from k on leave a reader that is in state
\* st: "code", "comment" (a block comment), "template" (a template string)
\* or the quote of a one-line string
RECURSIVE LexLine(_, _, _)
LexLine(line, k, st) ==
    IF k > Len(line)
    THEN IF st \in {"comment", "template"} THEN st ELSE "code"
    ELSE CASE st = "code" ->
                IF HasAt(line, k, <<"/", "/">>) THEN "code"
                ELSE IF HasAt(line, k, <<"/", "*">>)
                     THEN LexLine(line, k + 2, "comment")
                ELSE IF line[k] = BackQuote THEN LexLine(line, k + 1, "template")
                ELSE IF line[k] \in Quotes THEN LexLine(line, k + 1, line[k])
                ELSE LexLine(line, k + 1, "code")
           [] st = "comment" ->
                IF HasAt(line, k, <<"*", "/">>) THEN LexLine(line, k + 2, "code")
                ELSE LexLine(line, k + 1, "comment")
           [] st = "template" ->
                IF line[k] = "\\" THEN LexLine(line, k + 2, st)
                ELSE IF line[k] = BackQuote THEN LexLine(line, k + 1, "code")
                ELSE LexLine(line, k + 1, st)
           [] OTHER ->
                IF line[k] = "\\" THEN LexLine(line, k + 2, st)
                ELSE IF line[k] = st THEN LexLine(line, k + 1, "code")
                ELSE LexLine(line, k + 1, st)

\* the state of the reader at the beginning of line i of the document
RECURSIVE LexBefore(_)
LexBefore(i) == IF i = 1 THEN "code" ELSE LexLine(lines[i - 1], 1, LexBefore(i - 1))

IsLineComment(line) == HasAt(line, SkipWs(line, 1), <<"/", "/">>)

(***************************************************************************)
(* C17: a block comes from a line whose label is closed on that line by    *)
(* the quote that opened it, and the name of the block is the text between *)
(* the opening quote and its closing quote.                                *)
(***************************************************************************)
C17_NameIsTheQuotedLabel ==
    pc = "parsed" =>
        \A b \in Blocks :
            LET line == lines[testBlocks[b].line + 1]
                open == OpeningQuote(line)
                shut == LiteralEnd(line, open + 1, line[open])
            IN  /\ open # 0
                /\ shut # 0
                /\ testBlocks[b].name = SubSeq(line, open + 1, shut - 1)

(***************************************************************************)
(* C18: no block comes from a line inside a comment (a line comment or the *)
(* interior of a block comment) or inside a string that spans lines.       *)
(***************************************************************************)
C18_NoBlockInsideCommentOrString ==
    pc = "parsed" =>
        \A b \in Blocks :
            /\ LexBefore(testBlocks[b].line + 1) = "code"
            /\ ~IsLineComment(lines[testBlocks[b].line + 1])

(***************************************************************************)
(* C15: a call starts with no block and an empty ancestor stack, whatever  *)
(* was parsed before, and its result is the result every earlier call on   *)
(* the same text gave: the text parsed twice in a row, and the text parsed *)
(* again after another text.                                               *)
(***************************************************************************)
C15_ResultDependsOnTextOnly ==
    /\ (pc = "parsing" /\ lineNum = 0) =>
          testBlocks = <<>> /\ parentStack = <<>>
    /\ pc = "parsed" =>
          \A i \in 1..Len(returned) :
              returned[i].text = text => returned[i].blocks = testBlocks

\* a text with blocks was parsed, then another text with blocks that left
\* an entry on the ancestor stack, then the first text again
C15_Witness ==
    /\ pc = "parsed"
    /\ Len(returned) = 2
    /\ returned[1].text = text
    /\ returned[2].text # text
    /\ testBlocks # <<>>
    /\ \E b \in 1..Len(returned[2].blocks) :
          returned[2].blocks[b].type = "describe"

(***************************************************************************)
(* C16: replacing describe.only( and describe.skip( by describe( and       *)
(* it.only( and it.skip( by it( in a text leaves the returned sequence     *)
(* unchanged in every field.                                               *)
(***************************************************************************)
\* the text with every modified opening replaced by the plain one
RECURSIVE StripModifiers(_)
StripModifiers(t) ==
    IF t = <<>> THEN <<>>
    ELSE LET opening(kw, mod) == kw \o mod \o <<"(">>
             hits == { <<kw, mod>> \in {KwDescribe, KwIt} \X {ModOnly, ModSkip} :
                         IsPrefix(opening(kw, mod), t) }
         IN  IF hits = {} THEN <<Head(t)>> \o StripModifiers(Tail(t))
             ELSE LET h == CHOOSE x \in hits : TRUE
                  IN  h[1] \o <<"(">>
                      \o StripModifiers(SubSeq(t, Len(opening(h[1], h[2])) + 1, Len(t)))

C16_ModifiersDoNotChangeBlocks ==
    pc = "parsed" =>
        \A i \in 1..Len(returned) :
            ( \/ text = StripModifiers(returned[i].text)
              \/ returned[i].text = StripModifiers(text) )
            => returned[i].blocks = testBlocks

\* a text with a modified suite and a modified case in it was parsed, then
\* the text without the modifiers
C16_Witness ==
    /\ pc = "parsed"
    /\ Len(returned) = 1
    /\ text # returned[1].text
    /\ text = StripModifiers(returned[1].text)
    /\ \E b, c \in Blocks :
          /\ testBlocks[b].type = "describe"
          /\ testBlocks[c].type = "it"
          /\ testBlocks[c].parent = b
    /\ Len(text) + 10 = Len(returned[1].text)

MochaTerminals == {i \in 1..Len(terminals) : terminals[i].name = "Mocha Tests"}

\* the terminals the steps of the last call were applied to
UsedTerminals(log) ==
    {log[e].terminal : e \in {x \in 1..Len(log) :
                                 log[x].op \in {"show", "sendText"}}}

C20_TerminalCreatedOnlyWhenNoneListed ==
    /\ [][(effects' # effects \/ createCalls' # createCalls) =>
            IF MochaTerminals = {}
            THEN createCalls' = IF UsedTerminals(effects') = {}
                                THEN createCalls ELSE createCalls + 1
            ELSE /\ createCalls' = createCalls
                 /\ \A t \in UsedTerminals(effects') :
                       \E i \in MochaTerminals : terminals[i].id = t]_vars
    /\ [](Cardinality({i \in 1..Len(terminals) :
                           terminals[i].by = "extension"}) = createCalls
            => createCalls <= 1)

\* a call has used the terminal an earlier call created
C20_Witness ==
    /\ createCalls = 1
    /\ effects # <<>>
    /\ effects[1].op = "show"
    /\ \E i \in MochaTerminals :
          /\ terminals[i].by = "extension"
          /\ terminals[i].id = effects[1].terminal

(***************************************************************************)
(* C26: the parent of a block b is the latest earlier 'describe' block s   *)
(* with a column smaller than the column of b such that every block        *)
(* strictly between s and b has a column greater than the column of s; b   *)
(* has no parent exactly when there is no such s.  While b is being read,  *)
(* this is the top of the ancestor stack without its entries of indent     *)
(* greater than or equal to the indent of b.                               *)
(***************************************************************************)
\* the blocks that can be the parent of b by the rule
Candidates(b) ==
    {s \in 1..(b - 1) :
        /\ testBlocks[s].type = "describe"
        /\ testBlocks[s].column < testBlocks[b].column
        /\ \A m \in (s + 1)..(b - 1) :
              testBlocks[m].column > testBlocks[s].column}

C26_ParentIsLatestEnclosingDescribe ==
    /\ [](\A b \in Blocks :
            IF Candidates(b) = {} THEN testBlocks[b].parent = 0
            ELSE /\ testBlocks[b].parent \in Candidates(b)
                 /\ \A s \in Candidates(b) : s <= testBlocks[b].parent)
    /\ [][Len(testBlocks') = Len(testBlocks) + 1 =>
            LET b    == Len(testBlocks')
                kept == SelectSeq(parentStack,
                                  LAMBDA e : e.indent < testBlocks'[b].column)
            IN  testBlocks'[b].parent =
                  IF kept = <<>> THEN 0 ELSE kept[Len(kept)].block]_vars

\* a case returned under the outer of two suites, the inner suite left
C26_Witness ==
    /\ pc = "parsed"
    /\ Len(testBlocks) = 3
    /\ testBlocks[2].parent = 1
    /\ testBlocks[2].type = "describe"
    /\ testBlocks[3].parent = 1
    /\ testBlocks[3].column <= testBlocks[2].column

(***************************************************************************)
(* C28: at every step of a parse the ancestor stack holds 'describe'       *)
(* blocks only, in the order of the file, with indents that increase       *)
(* strictly from bottom to top; so the pop loop leaves exactly the entries *)
(* of indent smaller than the indent of the line, and a block never has    *)
(* more ancestors than its column.                                         *)
(***************************************************************************)
C28_StackIsAscendingDescribes ==
    /\ [](/\ \A i \in 1..Len(parentStack) :
              /\ parentStack[i].block \in Blocks
              /\ testBlocks[parentStack[i].block].type = "describe"
              /\ testBlocks[parentStack[i].block].column = parentStack[i].indent
          /\ \A i, j \in 1..Len(parentStack) :
                i < j => /\ parentStack[i].block < parentStack[j].block
                         /\ parentStack[i].indent < parentStack[j].indent
          /\ \A b \in Blocks : Depth(b) <= testBlocks[b].column)
    /\ [][Len(testBlocks') = Len(testBlocks) + 1 =>
            LET b      == Len(testBlocks')
                indent == testBlocks'[b].column
                kept   == SelectSeq(parentStack, LAMBDA e : e.indent < indent)
            IN  parentStack' = IF testBlocks'[b].type = "describe"
                               THEN Append(kept, [block |-> b, indent |-> indent])
                               ELSE kept]_vars

\* a line is read while two suites are on the stack, and it pops both
C28_Witness ==
    /\ pc = "parsing"
    /\ Len(testBlocks) = 3
    /\ Len(parentStack) = 1
    /\ parentStack[1].block = 3
    /\ testBlocks[2].parent = 1
    /\ testBlocks[2].type = "describe"

(***************************************************************************)
(* C30: for every returned block the pattern is ^, then escapeRegex of the *)
(* fullName of the block, then $ for an 'it' block, and it is the same     *)
(* whatever the fullName, line and column of the block and of its          *)
(* ancestors are.                                                          *)
(***************************************************************************)
\* the blocks with other values in the fields the pattern should not read
Defaced ==
    [b \in Blocks |-> [testBlocks[b] EXCEPT !.fullName = <<"?">>,
                                            !.line = 99 - b,
                                            !.column = 77]]

C30_PatternIsEscapedFullName ==
    PatternCalled =>
        /\ call.ret = <<"^">> \o escapeRegex(testBlocks[call.arg].fullName)
                      \o (IF testBlocks[call.arg].type = "it"
                          THEN <<"$">> ELSE <<>>)
        /\ call.ret = buildGrepPattern(Defaced, call.arg)

\* the pattern of a case under a suite whose name is escaped
C30_Witness ==
    /\ PatternCalled
    /\ testBlocks[call.arg].type = "it"
    /\ testBlocks[call.arg].parent # 0
    /\ testBlocks[testBlocks[call.arg].parent].name = <<"a", "$">>

(***************************************************************************)
(* C21: when the test file does not exist, getTestCommand returns null,    *)
(* runTest and runAllTests show the error 'Test file not found' and        *)
(* neither create nor show a terminal nor send a text, and debugTest shows *)
(* the error and starts no debug session.                                  *)
(***************************************************************************)
Ops(log) == {log[i].op : i \in 1..Len(log)}

C21_NothingRunsForAMissingFile ==
    fileName \notin files =>
        /\ createCalls = 0
        /\ \A i \in 1..Len(terminals) : terminals[i].by = "user"
        /\ \A i \in 1..Len(effects) :
              /\ effects[i].op = "showErrorMessage"
              /\ effects[i].message = <<"Test file not found: ">> \o fileName
        /\ call.op = "getTestCommand" => call.null /\ call.ret = <<>>

\* the file is missing, the user has a terminal named like the runner's,
\* and an operation has shown the error
C21_Witness ==
    /\ fileName \notin files
    /\ Len(effects) = 1
    /\ effects[1].op = "showErrorMessage"
    /\ call.op = "getTestCommand"
    /\ \E i \in 1..Len(terminals) : terminals[i].name = TerminalName

(***************************************************************************)
(* C22: debugTest starts a debug session only when a folder of the         *)
(* workspace holds the file; when none does it shows 'No workspace folder  *)
(* found for test file' and does not call startDebugging; the              *)
(* configuration of a started session has type 'node', request 'launch'    *)
(* and the args filePath, --grep, buildGrepPattern(block).                 *)
(***************************************************************************)
\* the folders of the workspace that the file is under
HoldingFolders ==
    {workspaceFolders[i] : i \in {k \in 1..Len(workspaceFolders) :
        IsPrefix(workspaceFolders[k] \o <<Sep>>, fileName)}}

C22_DebugSessionNeedsWorkspaceFolder ==
    /\ HoldingFolders = {} => "startDebugging" \notin Ops(effects)
    /\ \A i \in 1..Len(effects) :
          /\ effects[i].op = "showErrorMessage"
             /\ effects[i].message = <<"No workspace folder found for test file">>
             => fileName \in files /\ HoldingFolders = {} /\ Len(effects) = 1
          /\ effects[i].op = "startDebugging" =>
                /\ Len(effects) = 1
                /\ fileName \in files
                /\ effects[i].folder \in HoldingFolders
                /\ effects[i].configuration.type = "node"
                /\ effects[i].configuration.request = "launch"
                /\ \E b \in Blocks :
                      effects[i].configuration.args =
                          <<fileName, <<"-", "-", "g", "r", "e", "p">>,
                            buildGrepPattern(testBlocks, b)>>

\* a session is started for the case of the document
C22_Witness ==
    /\ Len(effects) = 1
    /\ effects[1].op = "startDebugging"
    /\ effects[1].configuration.args[3] = <<"^", "a", " ", "a", "$">>

\* the file exists, no folder holds it, the error is shown
C22_WitnessNoFolder ==
    /\ Len(effects) = 1
    /\ effects[1].op = "showErrorMessage"
    /\ fileName \in files
    /\ workspaceFolders # <<>>

(***************************************************************************)
(* C27: when runTest or runAllTests runs a command, the terminal is shown  *)
(* first, then exactly two texts are sent to it: the string "\n", then the *)
(* command.  The command of runTest ends with --grep "pattern" after the   *)
(* file path in double quotes; the command of runAllTests ends after the   *)
(* file path and holds no --grep.                                          *)
(***************************************************************************)
Positions(log, op) == {i \in 1..Len(log) : log[i].op = op}

QuotedFile == <<"\"">> \o fileName \o <<"\"">>

C27_WitnessAll ==
    /\ "createTerminal" \in Ops(effects)
    /\ effects[Len(effects)].op = "sendText"
    /\ IsSuffix(QuotedFile \o <<" ">>, effects[Len(effects)].text)

(***************************************************************************)
(* C23: with no workspace root, or with the file under the workspace root, *)
(* findMochaBinary returns node_modules/.bin/mocha of the innermost        *)
(* directory that has it, among the directory of the file and the          *)
(* directories above it up to and including the root of the walk; when     *)
(* none has it, the relative path node_modules/.bin/mocha.                 *)
(***************************************************************************)
\* dir is root or a directory under root
Within(root, dir) == dir = root \/ IsPrefix(root \o <<Sep>>, dir)

\* the directory of the file and those above it that are within root
UpTo(root, file) ==
    SelectSeq(Ancestors(PathDirname(file)),
              LAMBDA dir : root = <<>> \/ Within(root, dir))

MochaCalled == call.op = "findMochaBinary"

C23_InnermostMochaUpToRoot ==
    MochaCalled /\ (call.arg[2] = <<>> \/ Within(call.arg[2], PathDirname(call.arg[1])))
    => LET walk == UpTo(call.arg[2], call.arg[1])
           has  == {i \in 1..Len(walk) : MochaIn(walk[i]) \in files}
       IN  call.ret = IF has = {} THEN <<"node_modules/.bin/mocha">>
                      ELSE MochaIn(walk[CHOOSE i \in has : \A j \in has : i <= j])

(***************************************************************************)
(* C24: when a workspace root is set, findMochaBinary gives existsSync no  *)
(* path of a directory that is neither the workspace root nor under it,    *)
(* and the walk ends: each probe is one directory above the one before.    *)
(***************************************************************************)
C24_NoProbeOutsideWorkspaceRoot ==
    MochaCalled =>
        /\ call.arg[2] # <<>> =>
              \A i \in 1..Len(call.probed) :
                 \E dir \in Dirs : /\ Within(call.arg[2], dir)
                                   /\ call.probed[i] = MochaIn(dir)
        /\ Len(call.probed) <= Len(Ancestors(PathDirname(call.arg[1])))
        /\ \A i \in 1..Len(call.probed) :
              call.probed[i] = MochaIn(Ancestors(PathDirname(call.arg[1]))[i])

(***************************************************************************)
(* C25: getNodePath returns the first of: the configured nodePath; the     *)
(* path derived from NODE_PATH if it exists; .nix-bin-stubs/node in the    *)
(* workspace root; the nvm version named in the .nvmrc of the workspace;   *)
(* $NVM_BIN/node; the nvm 'current' link; the command node.                *)
(***************************************************************************)
NodeCalled == call.op = "getNodePath"

\* the sources in the order of the list, each with whether it applies
NodeSources(root) ==
    LET nvmDir  == IF environ.NVM_DIR # <<>> THEN environ.NVM_DIR
                   ELSE environ.homedir \o <<Sep, ".nvm">>
        derived == IF IsSuffix(LibNodeModules, environ.NODE_PATH)
                   THEN SubSeq(environ.NODE_PATH, 1,
                               Len(environ.NODE_PATH) - Len(LibNodeModules))
                        \o BinNode
                   ELSE environ.NODE_PATH
        stub    == root \o <<Sep, ".nix-bin-stubs", Sep, "node">>
        version == SelectSeq(nvmrc.content, LAMBDA c : c \notin {"v", "\n"})
        named   == nvmDir \o <<Sep, "versions", Sep, "node", Sep, "v">> \o version
                   \o <<Sep, "bin", Sep, "node">>
        active  == environ.NVM_BIN \o <<Sep, "node">>
        current == nvmDir \o <<Sep, "current", Sep, "bin", Sep, "node">>
    IN  << [path |-> config.nodePath, applies |-> config.nodePath # <<>>],
           [path |-> derived,
            applies |-> environ.NODE_PATH # <<>> /\ derived \in files],
           [path |-> stub, applies |-> root # <<>> /\ stub \in files],
           [path |-> named,
            applies |-> /\ root # <<>>
                        /\ root \o <<Sep, ".nvmrc">> \in files
                        /\ ~nvmrc.throws
                        /\ named \in files],
           [path |-> active,
            applies |-> environ.NVM_BIN # <<>> /\ active \in files],
           [path |-> current, applies |-> current \in files],
           [path |-> <<"node">>, applies |-> TRUE] >>

C25_FirstNodeSourceThatApplies ==
    NodeCalled =>
        LET sources == NodeSources(call.arg)
            first   == CHOOSE i \in 1..7 :
                          /\ sources[i].applies
                          /\ \A j \in 1..(i - 1) : ~sources[j].applies
        IN  call.ret.path = sources[first].path

(***************************************************************************)
(* C29: over the calls of activate and deactivate of one process, the      *)
(* TestRunner is created and the provider and each command are registered  *)
(* at most once, by the first call of activate; a later call of activate   *)
(* does nothing, also after deactivate: isActivated is never reset and the *)
(* disposed runner is not replaced.                                        *)
(***************************************************************************)
Count(log, name) == Cardinality({i \in 1..Len(log) : log[i] = name})

C29_ActivatedOnce ==
    /\ [](/\ testRunner.id <= 1
          /\ Count(subscriptions, "codeLensProvider") <= 1
          /\ \A i \in 1..Len(Commands) : Count(subscriptions, Commands[i]) <= 1
          /\ isActivated <=> activateCalls > 0
          /\ isActivated <=> testRunner.id = 1
          /\ isActivated <=> Registered("mochaTestLens.runTest"))
    /\ [][activateCalls' = activateCalls + 1 =>
            IF activateCalls = 0
            THEN /\ testRunner' = [id |-> 1, disposed |-> FALSE]
                 /\ \A i \in 1..Len(Commands) :
                       Count(subscriptions', Commands[i]) = 1
            ELSE /\ effects' = <<>>
                 /\ UNCHANGED <<isActivated, testRunner, subscriptions,
                                parserVars, returned, lensVars, terminals,
                                createCalls, opened, hostVars>>]_vars
    /\ [][/\ isActivated => isActivated'
          /\ testRunner.disposed => testRunner' = testRunner]_vars

\* activate has returned after the runner was disposed of
C29_Witness ==
    /\ testRunner = [id |-> 1, disposed |-> TRUE]
    /\ effects = <<>>
    /\ activateCalls = 2
    /\ isActivated

====
